---------------------------- MODULE Spec2Model ----------------------------
(***************************************************************************)
(* Model of the order-processing ETL functions:                            *)
(*   append variant   src/cloud_functions/gcs_pubsub_bq/main.py            *)
(*   staging variant  src/datapipeline/01_cloud_functions/gcs_pubsub_bq/   *)
(*                    main.py                                              *)
(*   storage-event    src/datapipeline/mian.py                             *)
(* Text is a sequence of one-character strings; a Python value is a record *)
(* [jt, s, kids] (type tag, characters, children).                         *)
(***************************************************************************)
EXTENDS Integers, Sequences, FiniteSets, Bags, TLC

(***************************************************************************)
(* Python values                                                           *)
(***************************************************************************)
PyNone == [jt |-> "null", s |-> <<>>, kids |-> <<>>]
PyTrue == [jt |-> "true", s |-> <<>>, kids |-> <<>>]
PyFalse == [jt |-> "false", s |-> <<>>, kids |-> <<>>]
PyStr(chars) == [jt |-> "string", s |-> chars, kids |-> <<>>]
PyBytes(chars) == [jt |-> "bytes", s |-> chars, kids |-> <<>>]
PyInt(digits) == [jt |-> "number", s |-> digits, kids |-> <<>>]
PyList(items) == [jt |-> "array", s |-> <<>>, kids |-> items]
\* a dict is the sequence of its items [k |-> key characters, v |-> value]
PyDict(items) == [jt |-> "object", s |-> <<>>, kids |-> items]
Item(key, val) == [k |-> key, v |-> val]
\* d[key] = val on the item sequence: a present key keeps its position
SetItem(items, key, val) ==
    IF \E n \in 1..Len(items) : items[n].k = key
    THEN [n \in 1..Len(items) |-> IF items[n].k = key THEN Item(key, val) ELSE items[n]]
    ELSE Append(items, Item(key, val))

\* bool(v): None, False, 0, "" and empty containers are falsy
Truthy(v) ==
    CASE v.jt \in {"null", "false"} -> FALSE
      [] v.jt = "true" -> TRUE
      [] v.jt \in {"string", "bytes"} -> v.s # <<>>
      [] v.jt = "number" -> v.s \notin {<<"0">>, <<"-", "0">>}
      [] OTHER -> v.kids # <<>>

\* key in d, for a dict d
HasKey(d, key) == \E n \in 1..Len(d.kids) : d.kids[n].k = key

\* d[key] for a key that is present: the last item of that key
Lookup(d, key) ==
    LET n == CHOOSE m \in 1..Len(d.kids) :
                 /\ d.kids[m].k = key
                 /\ \A l \in (m+1)..Len(d.kids) : d.kids[l].k # key
    IN  d.kids[n].v

\* d.get(key): None when the key is absent
DictGet(d, key) == IF HasKey(d, key) THEN Lookup(d, key) ELSE PyNone

\* the text an f-string puts for v (strings and integers; other values are
\* not interpolated into names by any input of the model)
FormatStr(v) == IF v.jt \in {"string", "bytes", "number"} THEN v.s ELSE <<"N", "o", "n", "e">>

\* s.endswith(suffix)
EndsWith(chars, suffix) ==
    /\ Len(chars) >= Len(suffix)
    /\ SubSeq(chars, Len(chars) - Len(suffix) + 1, Len(chars)) = suffix

(***************************************************************************)
(* base64.b64decode(s) (non-strict) followed by .decode('utf-8')           *)
(***************************************************************************)
AsciiPrintable == <<" ", "!", "\"", "#", "$", "%", "&", "'", "(", ")", "*", "+", ",", "-", ".", "/", "0", "1", "2", "3", "4", "5", "6", "7", "8", "9", ":", ";", "<", "=", ">", "?", "@", "A", "B", "C", "D", "E", "F", "G", "H", "I", "J", "K", "L", "M", "N", "O", "P", "Q", "R", "S", "T", "U", "V", "W", "X", "Y", "Z", "[", "\\", "]", "^", "_", "(backtick)", "a", "b", "c", "d", "e", "f", "g", "h", "i", "j", "k", "l", "m", "n", "o", "p", "q", "r", "s", "t", "u", "v", "w", "x", "y", "z", "{", "|", "}", "~">>
B64Alphabet == <<"A", "B", "C", "D", "E", "F", "G", "H", "I", "J", "K", "L", "M", "N", "O", "P", "Q", "R", "S", "T", "U", "V", "W", "X", "Y", "Z", "a", "b", "c", "d", "e", "f", "g", "h", "i", "j", "k", "l", "m", "n", "o", "p", "q", "r", "s", "t", "u", "v", "w", "x", "y", "z", "0", "1", "2", "3", "4", "5", "6", "7", "8", "9", "+", "/">>

IndexOf(seq, c) == CHOOSE n \in 1..Len(seq) : seq[n] = c
IsAscii(c) ==
    \/ \E n \in 1..Len(AsciiPrintable) : AsciiPrintable[n] = c
    \/ c \in {"\t", "\n", "\r"}
\* ord(c) and chr(b) for printable ASCII (code 32 is the first of the table;
\* code 96 is spelled out, no input of the model holds it)
Ord(c) == IndexOf(AsciiPrintable, c) + 31
Chr(b) == AsciiPrintable[b - 31]
IsB64(c) == \E n \in 1..Len(B64Alphabet) : B64Alphabet[n] = c
B64Value(c) == IndexOf(B64Alphabet, c) - 1

\* str.encode(): the bytes of an ASCII text
encode_utf8(chars) == [n \in 1..Len(chars) |-> Ord(chars[n])]

\* base64.b64encode(bytes), as the publisher of a Pub/Sub message applies it:
\* character j of the output, from the three bytes of its group
b64encode(bytes) ==
    LET n == Len(bytes)
        Byte(k) == IF k <= n THEN bytes[k] ELSE 0
    IN  [j \in 1..(4 * ((n + 2) \div 3)) |->
            LET q  == (j - 1) \div 4
                r  == (j - 1) % 4
                b1 == Byte(3 * q + 1)
                b2 == Byte(3 * q + 2)
                b3 == Byte(3 * q + 3)
            IN  CASE r = 0 -> B64Alphabet[(b1 \div 4) + 1]
                  [] r = 1 -> B64Alphabet[((b1 % 4) * 16 + (b2 \div 16)) + 1]
                  [] r = 2 -> IF 3 * q + 2 <= n
                              THEN B64Alphabet[((b2 % 16) * 4 + (b3 \div 64)) + 1] ELSE "="
                  [] OTHER -> IF 3 * q + 3 <= n THEN B64Alphabet[(b3 % 64) + 1] ELSE "="]

\* binascii.a2b_base64, non-strict.  Characters outside the alphabet are
\* skipped.  A pad ends the input when the open quad holds three characters,
\* or holds two and a pad was already seen since its last character; other
\* pads are skipped.  A quad left open at the end of the input is an error.
A2B(chars) ==
    LET DataBefore(i) == Cardinality({j \in 1..i : IsB64(chars[j])})
        EndsInput(i) ==
            /\ chars[i] = "="
            /\ \/ DataBefore(i) % 4 = 3
               \/ /\ DataBefore(i) % 4 = 2
                  /\ \E j \in 1..(i - 1) : chars[j] = "=" /\ DataBefore(j) = DataBefore(i)
        stops == {i \in 1..Len(chars) : EndsInput(i)}
        used  == IF stops = {} THEN Len(chars)
                 ELSE (CHOOSE i \in stops : \A j \in stops : i <= j) - 1
        data  == SelectSeq(SubSeq(chars, 1, used), IsB64)
        Val(k) == B64Value(data[k])
    IN  IF stops = {} /\ Len(data) % 4 # 0
        THEN [ok |-> FALSE, bytes |-> <<>>]
        ELSE [ok |-> TRUE,
              bytes |-> [k \in 1..((Len(data) * 6) \div 8) |->
                  LET q == (k - 1) \div 3
                      r == (k - 1) % 3
                  IN  CASE r = 0 -> Val(4 * q + 1) * 4 + (Val(4 * q + 2) \div 16)
                        [] r = 1 -> (Val(4 * q + 2) % 16) * 16 + (Val(4 * q + 3) \div 4)
                        [] OTHER -> (Val(4 * q + 3) % 4) * 64 + Val(4 * q + 4)]]

\* base64.b64decode(v): TypeError unless v is str or bytes; a str must be
\* ASCII (ValueError); binascii.Error is a ValueError
b64decode(v) ==
    IF v.jt \notin {"string", "bytes"}
    THEN [exc |-> "TypeError", bytes |-> <<>>]
    ELSE IF \E n \in 1..Len(v.s) : ~IsAscii(v.s[n])
    THEN [exc |-> "ValueError", bytes |-> <<>>]
    ELSE LET r == A2B(v.s) IN
         IF r.ok THEN [exc |-> "", bytes |-> r.bytes]
                 ELSE [exc |-> "binascii.Error", bytes |-> <<>>]

\* bytes.decode('utf-8'): ASCII bytes decode to their characters (control
\* characters other than tab, newline and return to one placeholder); a byte
\* of 128 or more is undecodable (no input of the model holds a well-formed
\* multi-byte sequence)
ControlChar(b) ==
    CASE b = 9 -> "\t" [] b = 10 -> "\n" [] b = 13 -> "\r" [] OTHER -> "(ctl)"
decode_utf8(bytes) ==
    IF \A n \in 1..Len(bytes) : bytes[n] <= 127
    THEN [exc |-> "",
          chars |-> [n \in 1..Len(bytes) |->
                        IF bytes[n] >= 32 /\ bytes[n] <= 126 THEN Chr(bytes[n])
                        ELSE ControlChar(bytes[n])]]
    ELSE [exc |-> "UnicodeDecodeError", chars |-> <<>>]

(***************************************************************************)
(* json.loads(text): objects, arrays, strings (escapes \" \\ \/), integers *)
(* and the literals null, true, false                                      *)
(***************************************************************************)
JsonWhitespace == {" ", "\t", "\n", "\r"}
Digits == {"0", "1", "2", "3", "4", "5", "6", "7", "8", "9"}
ParseFail == [ok |-> FALSE, val |-> PyNone, next |-> 0]
ParseOk(v, n) == [ok |-> TRUE, val |-> v, next |-> n]
At(t, i) == IF i >= 1 /\ i <= Len(t) THEN t[i] ELSE "(end)"

RECURSIVE SkipWs(_, _)
SkipWs(t, i) == IF At(t, i) \in JsonWhitespace THEN SkipWs(t, i + 1) ELSE i

\* t[i] is the opening quote; the result's next is the index after the closing one
RECURSIVE ScanString(_, _, _)
ScanString(t, j, acc) ==
    LET c == At(t, j) IN
    CASE c = "\"" -> ParseOk(PyStr(acc), j + 1)
      [] c = "\\" -> IF At(t, j + 1) \in {"\"", "\\", "/"}
                     THEN ScanString(t, j + 2, Append(acc, At(t, j + 1)))
                     ELSE ParseFail
      [] c \in {"(end)", "(ctl)", "\t", "\n", "\r"} -> ParseFail
      [] OTHER -> ScanString(t, j + 1, Append(acc, c))
ParseString(t, i) == ScanString(t, i + 1, <<>>)

RECURSIVE ScanDigits(_, _)
ScanDigits(t, j) == IF At(t, j) \in Digits THEN ScanDigits(t, j + 1) ELSE j
ParseNumber(t, i) ==
    LET first == IF At(t, i) = "-" THEN i + 1 ELSE i
        last  == ScanDigits(t, first)
    IN  IF last = first \/ (At(t, first) = "0" /\ last > first + 1)
        THEN ParseFail
        ELSE ParseOk(PyInt(SubSeq(t, i, last - 1)), last)

ParseLiteral(t, i, word, v) ==
    IF i + Len(word) - 1 <= Len(t) /\ SubSeq(t, i, i + Len(word) - 1) = word
    THEN ParseOk(v, i + Len(word))
    ELSE ParseFail

RECURSIVE ParseValue(_, _)
RECURSIVE ParseMembers(_, _, _)
RECURSIVE ParseElements(_, _, _)

\* j is at the first character of a member's key
ParseMembers(t, j, acc) ==
    IF At(t, j) # "\"" THEN ParseFail
    ELSE LET key == ParseString(t, j) IN
         IF ~key.ok THEN ParseFail
         ELSE LET colon == SkipWs(t, key.next) IN
              IF At(t, colon) # ":" THEN ParseFail
              ELSE LET val == ParseValue(t, colon + 1) IN
                   IF ~val.ok THEN ParseFail
                   ELSE LET sep  == SkipWs(t, val.next)
                            more == SetItem(acc, key.val.s, val.val)
                        IN  CASE At(t, sep) = "}" -> ParseOk(PyDict(more), sep + 1)
                              [] At(t, sep) = "," -> ParseMembers(t, SkipWs(t, sep + 1), more)
                              [] OTHER -> ParseFail

\* j is before an element (whitespace not yet skipped)
ParseElements(t, j, acc) ==
    LET val == ParseValue(t, j) IN
    IF ~val.ok THEN ParseFail
    ELSE LET sep  == SkipWs(t, val.next)
             more == Append(acc, val.val)
         IN  CASE At(t, sep) = "]" -> ParseOk(PyList(more), sep + 1)
               [] At(t, sep) = "," -> ParseElements(t, sep + 1, more)
               [] OTHER -> ParseFail

ParseValue(t, i) ==
    LET j == SkipWs(t, i)
        c == At(t, j)
    IN  CASE c = "\"" -> ParseString(t, j)
          [] c = "{" -> IF At(t, SkipWs(t, j + 1)) = "}"
                        THEN ParseOk(PyDict(<<>>), SkipWs(t, j + 1) + 1)
                        ELSE ParseMembers(t, SkipWs(t, j + 1), <<>>)
          [] c = "[" -> IF At(t, SkipWs(t, j + 1)) = "]"
                        THEN ParseOk(PyList(<<>>), SkipWs(t, j + 1) + 1)
                        ELSE ParseElements(t, j + 1, <<>>)
          [] c = "n" -> ParseLiteral(t, j, <<"n", "u", "l", "l">>, PyNone)
          [] c = "t" -> ParseLiteral(t, j, <<"t", "r", "u", "e">>, PyTrue)
          [] c = "f" -> ParseLiteral(t, j, <<"f", "a", "l", "s", "e">>, PyFalse)
          [] c = "-" \/ c \in Digits -> ParseNumber(t, j)
          [] OTHER -> ParseFail

\* json.loads: the whole text must be one value; JSONDecodeError is a ValueError
json_loads(t) ==
    LET r == ParseValue(t, 1) IN
    IF r.ok /\ SkipWs(t, r.next) = Len(t) + 1
    THEN [exc |-> "", val |-> r.val]
    ELSE [exc |-> "JSONDecodeError", val |-> PyNone]

(***************************************************************************)
(* json.dumps of a value built from dicts, lists, strings without escapes, *)
(* integers and literals (default separators), as a publisher writes it    *)
(***************************************************************************)
RECURSIVE json_dumps(_)
RECURSIVE DumpItems(_, _)
DumpItems(v, n) ==
    LET one == IF v.jt = "object"
               THEN <<"\"">> \o v.kids[n].k \o <<"\"", ":", " ">> \o json_dumps(v.kids[n].v)
               ELSE json_dumps(v.kids[n])
    IN  IF n = Len(v.kids) THEN one ELSE one \o <<",", " ">> \o DumpItems(v, n + 1)
json_dumps(v) ==
    CASE v.jt = "null" -> <<"n", "u", "l", "l">>
      [] v.jt = "true" -> <<"t", "r", "u", "e">>
      [] v.jt = "false" -> <<"f", "a", "l", "s", "e">>
      [] v.jt = "number" -> v.s
      [] v.jt \in {"string", "bytes"} -> <<"\"">> \o v.s \o <<"\"">>
      [] v.jt = "object" ->
           <<"{">> \o (IF v.kids = <<>> THEN <<>> ELSE DumpItems(v, 1)) \o <<"}">>
      [] OTHER ->
           <<"[">> \o (IF v.kids = <<>> THEN <<>> ELSE DumpItems(v, 1)) \o <<"]">>

(***************************************************************************)
(* Trigger adapters: the head of each entry point, up to its first         *)
(* external call.  The result is [exc, skip, bucket_name, file_name]: exc  *)
(* is "" or the class of the exception raised.                             *)
(***************************************************************************)
KeyData == <<"d", "a", "t", "a">>
KeyBucket == <<"b", "u", "c", "k", "e", "t">>
KeyName == <<"n", "a", "m", "e">>
DotJson == <<".", "j", "s", "o", "n">>

\* ValueError and its subclasses
IsValueError(exc) ==
    exc \in {"ValueError", "binascii.Error", "UnicodeDecodeError", "JSONDecodeError"}

Raised(exc) == [exc |-> exc, skip |-> FALSE, bucket_name |-> PyNone, file_name |-> PyNone]
Accepted(b, n) == [exc |-> "", skip |-> FALSE, bucket_name |-> b, file_name |-> n]
Skipped(b, n) == [exc |-> "", skip |-> TRUE, bucket_name |-> b, file_name |-> n]

\* "if not bucket_name or not file_name: raise ValueError"
RequireBoth(b, n) == IF ~Truthy(b) \/ ~Truthy(n) THEN Raised("ValueError") ELSE Accepted(b, n)

\* base64.b64decode(x).decode('utf-8'), json.loads, data.get('bucket'), data.get('name')
DecodeMessage(x) ==
    LET raw == b64decode(x) IN
    IF raw.exc # "" THEN Raised(raw.exc)
    ELSE LET text == decode_utf8(raw.bytes) IN
         IF text.exc # "" THEN Raised(text.exc)
         ELSE LET data == json_loads(text.chars) IN
              IF data.exc # "" THEN Raised(data.exc)
              ELSE IF data.val.jt # "object" THEN Raised("AttributeError")
              ELSE RequireBoth(DictGet(data.val, KeyBucket), DictGet(data.val, KeyName))

\* append variant, lines 103-115
AppendTrigger(payload) ==
    IF HasKey(payload, KeyData)
    THEN DecodeMessage(Lookup(payload, KeyData))
    ELSE Raised("ValueError")

\* staging variant, lines 119-138
StagingTrigger(payload) ==
    IF HasKey(payload, KeyData)
    THEN LET file_info == Lookup(payload, KeyData) IN
         CASE file_info.jt = "object" ->
                RequireBoth(DictGet(file_info, KeyBucket), DictGet(file_info, KeyName))
           [] file_info.jt \in {"bytes", "string"} -> DecodeMessage(file_info)
           [] OTHER -> Raised("ValueError")
    ELSE Raised("ValueError")

\* storage-event function, lines 23-30
StorageTrigger(payload) ==
    IF ~HasKey(payload, KeyBucket) \/ ~HasKey(payload, KeyName) THEN Raised("KeyError")
    ELSE LET b == Lookup(payload, KeyBucket)
             n == Lookup(payload, KeyName)
         IN  CASE n.jt = "bytes" -> Raised("TypeError")
               [] n.jt # "string" -> Raised("AttributeError")
               [] ~EndsWith(n.s, DotJson) -> Skipped(b, n)
               [] OTHER -> Accepted(b, n)

(***************************************************************************)
(* Names, trigger payloads and configurations the model runs on            *)
(***************************************************************************)
InBucket == <<"i", "n">>
OtherBucket == <<"x", "2">>
ArchiveBucket == <<"a", "r">>
FileA == <<"a", ".", "j", "s", "o", "n">>
FileB == <<"b", ".", "j", "s", "o", "n">>
FileTxt == <<"a", ".", "t", "x", "t">>

FileRef(b, n) == PyDict(<<Item(KeyBucket, b), Item(KeyName, n)>>)
\* the envelope a publisher sends for payload text t: {'data': base64(t)}
Envelope(t) == PyDict(<<Item(KeyData, PyStr(b64encode(encode_utf8(t))))>>)
WithData(v) == PyDict(<<Item(KeyData, v)>>)

Events ==
    [ps_a |-> Envelope(json_dumps(FileRef(PyStr(InBucket), PyStr(FileA)))),
     ps_b |-> Envelope(json_dumps(FileRef(PyStr(InBucket), PyStr(FileB)))),
     ps_other |-> Envelope(json_dumps(FileRef(PyStr(OtherBucket), PyStr(FileA)))),
     ps_dict |-> WithData(FileRef(PyStr(InBucket), PyStr(FileA))),
     ps_no_bucket |-> Envelope(json_dumps(PyDict(<<Item(KeyName, PyStr(FileA))>>))),
     ps_no_name |-> Envelope(json_dumps(PyDict(<<Item(KeyBucket, PyStr(InBucket))>>))),
     ps_empty_bucket |-> Envelope(json_dumps(FileRef(PyStr(<<>>), PyStr(FileA)))),
     ps_null_name |-> Envelope(json_dumps(FileRef(PyStr(InBucket), PyNone))),
     ps_dict_no_bucket |-> WithData(PyDict(<<Item(KeyName, PyStr(FileA))>>)),
     ps_json_list |-> Envelope(json_dumps(PyList(<<PyInt(<<"1">>)>>))),
     ps_json_null |-> Envelope(json_dumps(PyNone)),
     ps_not_json |-> Envelope(<<"n", "o", "t", " ", "j", "s", "o", "n">>),
     ps_bad_base64 |-> WithData(PyStr(<<"e", "3", "0">>)),
     ps_data_none |-> WithData(PyNone),
     ps_data_int |-> WithData(PyInt(<<"5">>)),
     no_data |-> PyDict(<<>>),
     direct_a |-> FileRef(PyStr(InBucket), PyStr(FileA)),
     direct_b |-> FileRef(PyStr(InBucket), PyStr(FileB)),
     direct_other |-> FileRef(PyStr(OtherBucket), PyStr(FileA)),
     direct_txt |-> FileRef(PyStr(InBucket), PyStr(FileTxt)),
     direct_no_bucket |-> PyDict(<<Item(KeyName, PyStr(FileA))>>),
     direct_no_name |-> PyDict(<<Item(KeyBucket, PyStr(InBucket))>>),
     direct_empty_bucket |-> FileRef(PyStr(<<>>), PyStr(FileA)),
     direct_none_bucket |-> FileRef(PyNone, PyStr(FileA)),
     direct_empty_name |-> FileRef(PyStr(InBucket), PyStr(<<>>)),
     direct_none_name |-> FileRef(PyStr(InBucket), PyNone)]
EventIds == DOMAIN Events

\* a record of an order as a JSON object
KeyOrderId == <<"o", "r", "d", "e", "r", "_", "i", "d">>
KeyOrderStatus == <<"o", "r", "d", "e", "r", "_", "s", "t", "a", "t", "u", "s">>
Record(id) == PyDict(<<Item(KeyOrderId, PyStr(id)), Item(KeyOrderStatus, PyStr(<<"n", "e", "w">>))>>)
\* the text of the objects that trigger the storage-event function: one JSON
\* object, a JSON array of two objects, two JSON objects on two lines
DocumentText(object) ==
    CASE object = <<InBucket, FileA>> -> json_dumps(Record(<<"1">>))
      [] object = <<InBucket, FileB>> -> json_dumps(PyList(<<Record(<<"1">>), Record(<<"2">>)>>))
      [] object = <<OtherBucket, FileA>> ->
           json_dumps(Record(<<"3">>)) \o <<"\n">> \o json_dumps(Record(<<"4">>))
      [] OTHER -> <<>>
\* if not isinstance(data, list): data = [data]
EnsureList(d) == IF d.jt = "array" THEN d ELSE PyList(<<d>>)
\* the first argument of load_table_from_json: [data]
JsonRows(d) == PyList(<<d>>)

Deployments == {"append", "staging", "storage_event"}
PubSub == {"append", "staging"}
\* the scripts run from a shell: masterdata_to_bq.py and create_bq_dataset.py
Scripts == {"csv_loader", "dataset_script"}

\* d.get(key, default)
DictGetDefault(d, key, default) == IF HasKey(d, key) THEN Lookup(d, key) ELSE default

\* keys of config.yaml
MasterSection ==
    <<"m", "a", "s", "t", "e", "r", "_", "d", "a", "t", "a", "_", "l", "o", "a", "d", "i", "n", "g">>
StagingSection ==
    <<"s", "t", "a", "g", "i", "n", "g", "_", "d", "a", "t", "a", "_", "l", "o", "a", "d", "i", "n", "g">>
KeyProject ==
    <<"p", "r", "o", "j", "e", "c", "t", "_", "i", "d">>
KeyDataset ==
    <<"d", "a", "t", "a", "s", "e", "t", "_", "i", "d">>
KeyTable ==
    <<"t", "a", "b", "l", "e", "_", "i", "d">>
KeyCsv ==
    <<"c", "s", "v", "_", "f", "i", "l", "e", "_", "p", "a", "t", "h">>
KeyCreate ==
    <<"c", "r", "e", "a", "t", "e", "_", "d", "a", "t", "a", "s", "e", "t">>
KeyLogging ==
    <<"c", "l", "o", "u", "d", "_", "l", "o", "g", "g", "i", "n", "g">>
KeyLogName ==
    <<"l", "o", "g", "_", "n", "a", "m", "e">>
YamlText == PyStr(<<"v">>)

\* a section of config.yaml with the keys a script requires, table_id as
\* given, and the create_dataset flag as given (None: key absent)
Section(table, create) ==
    PyDict(<<Item(KeyProject, YamlText), Item(KeyDataset, YamlText), Item(KeyCsv, YamlText)>>
           \o (IF table = PyNone THEN <<>> ELSE <<Item(KeyTable, table)>>)
           \o (IF create = PyNone THEN <<>> ELSE <<Item(KeyCreate, create)>>))
BothSections(sec) == PyDict(<<Item(MasterSection, sec), Item(StagingSection, sec)>>)
\* the two sections and a cloud_logging section with the log_name given
WithLogging(sec, log_name) ==
    PyDict(<<Item(MasterSection, sec), Item(StagingSection, sec),
             Item(KeyLogging, PyDict(<<Item(KeyLogName, log_name)>>))>>)

\* what yaml.safe_load returns for the config.yaml files the scripts are run on
Yamls ==
    [yaml_create |-> BothSections(Section(YamlText, PyTrue)),
     yaml_plain |-> BothSections(Section(YamlText, PyNone)),
     yaml_no_table |-> BothSections(Section(PyNone, PyTrue)),
     yaml_empty_table |-> BothSections(Section(PyStr(<<>>), PyTrue)),
     yaml_no_sections |-> PyDict(<<>>),
     yaml_empty_log_name |-> WithLogging(Section(YamlText, PyTrue), PyStr(<<>>)),
     yaml_log_name |-> WithLogging(Section(YamlText, PyTrue), YamlText),
     yaml_null_sections |-> BothSections(PyNone)]
YamlIds == DOMAIN Yamls

\* the section of config.yaml a script reads its values from
SectionOf(d) == IF d = "dataset_script" THEN StagingSection ELSE MasterSection
\* the default of cloud_logging_config.get("log_name", ...) in each script
DefaultLogName(d) ==
    CASE d = "dataset_script" ->
           PyStr(<<"c", "r", "e", "a", "t", "e", "_", "d", "a", "t", "a", "s", "e", "t", "_", "l", "o", "g">>)
      [] d = "delete_script" ->
           PyStr(<<"d", "e", "l", "e", "t", "e", "_", "d", "a", "t", "a", "s", "e", "t", "_", "l", "o", "g">>)
      [] OTHER ->
           PyStr(<<"b", "i", "g", "q", "u", "e", "r", "y", "-", "l", "o", "a", "d", "e", "r">>)
\* config.get(section, {}).get(...) and config.get("cloud_logging", {}).get(...):
\* a document or a section that is not a mapping (a section left empty is
\* None) has no get, and the AttributeError is caught by none of the scripts
ConfigReadable(d, y) ==
    /\ y.jt = "object"
    /\ DictGetDefault(y, SectionOf(d), PyDict(<<>>)).jt = "object"
    /\ DictGetDefault(y, KeyLogging, PyDict(<<>>)).jt = "object"
\* log_name = cloud_logging_config.get("log_name", default): the default is
\* taken only when the key is absent
LogName(d, y) ==
    DictGetDefault(DictGetDefault(y, KeyLogging, PyDict(<<>>)), KeyLogName, DefaultLogName(d))

\* masterdata_to_bq.py: "if not all([csv_file_path, project_id, dataset_id,
\* table_id])" on config.get('master_data_loading', {})
LoaderConfigOk(y) ==
    LET sec == DictGetDefault(y, MasterSection, PyDict(<<>>)) IN
    \A k \in {KeyCsv, KeyProject, KeyDataset, KeyTable} : Truthy(DictGet(sec, k))
\* create_bq_dataset.py: "if not all([project_id, dataset_id, log_name,
\* table_id])" on config.get("staging_data_loading", {}) and log_name
DatasetScriptConfigOk(y) ==
    LET sec == DictGetDefault(y, StagingSection, PyDict(<<>>)) IN
    /\ \A k \in {KeyProject, KeyDataset, KeyTable} : Truthy(DictGet(sec, k))
    /\ Truthy(LogName("dataset_script", y))
\* create_bq_dataset.py: master_data_config.get("create_dataset", False)
CreateDatasetFlag(y) ==
    Truthy(DictGetDefault(DictGetDefault(y, StagingSection, PyDict(<<>>)), KeyCreate, PyFalse))
\* delete_dataset.py: "if not all([project_id, dataset_id, log_name,
\* csv_file_path, table_id])" on config.get("master_data_loading", {}) and
\* log_name
DeleteScriptConfigOk(y) ==
    LET sec == DictGetDefault(y, MasterSection, PyDict(<<>>)) IN
    /\ \A k \in {KeyProject, KeyDataset, KeyCsv, KeyTable} : Truthy(DictGet(sec, k))
    /\ Truthy(LogName("delete_script", y))
\* delete_dataset.py: delete_dataset = master_data_config.get("dataset_id", False)
DeleteDatasetFlag(y) ==
    Truthy(DictGetDefault(DictGetDefault(y, MasterSection, PyDict(<<>>)), KeyDataset, PyFalse))
ConfigOk(d, y) == IF d = "csv_loader" THEN LoaderConfigOk(y) ELSE DatasetScriptConfigOk(y)

\* the entry point's trigger adapter on every payload
TriggerAdapter(d, payload) ==
    CASE d = "append" -> AppendTrigger(payload)
      [] d = "staging" -> StagingTrigger(payload)
      [] OTHER -> StorageTrigger(payload)
Adapted == [d \in Deployments |-> [e \in EventIds |-> TriggerAdapter(d, Events[e])]]

\* delete_dataset.py, run from a shell
Cleanups == {"delete_script"}

\* the scheduled workflow of extract_data_sim.py
Workflows == {"simulation_dag"}

\* os.environ.get of the deployment: [deployed, archive, staging_bucket]
Configs ==
    [deployed : {"append"}, archive : {PyNone, PyStr(<<>>), PyStr(ArchiveBucket)},
     staging_bucket : {PyStr(InBucket)}]
    \cup [deployed : {"staging"}, archive : {PyNone, PyStr(ArchiveBucket)},
          staging_bucket : {PyNone, PyStr(InBucket), PyStr(OtherBucket)}]
    \cup [deployed : {"storage_event"} \cup Scripts \cup Cleanups \cup Workflows,
          archive : {PyNone}, staging_bucket : {PyNone}]

DATASET_ID == "DATASET_ID"
STAGING_DATASET_ID == "STAGING_DATASET_ID"

\* classes an external call can raise: ValueError (or a subclass), or any
\* other subclass of Exception
ExternalFailures == {"ValueError", "Exception"}

MaxInstances == 2
MaxDeliveries == 3
Instances == 1..MaxInstances

(***************************************************************************)
(* State                                                                   *)
(***************************************************************************)
(***************************************************************************)
(* The simulation DAG: pandas' CSV reader and writer, the conversions of   *)
(* transform_to_json, json.dumps(..., indent=4)                            *)
(***************************************************************************)
\* the texts pd.read_csv takes as missing values
NaValues ==
    {<<>>,
     <<"#", "N", "/", "A">>,
     <<"#", "N", "/", "A", " ", "N", "/", "A">>,
     <<"#", "N", "A">>,
     <<"-", "1", ".", "#", "I", "N", "D">>,
     <<"-", "1", ".", "#", "Q", "N", "A", "N">>,
     <<"-", "N", "a", "N">>,
     <<"-", "n", "a", "n">>,
     <<"1", ".", "#", "I", "N", "D">>,
     <<"1", ".", "#", "Q", "N", "A", "N">>,
     <<"<", "N", "A", ">">>,
     <<"N", "/", "A">>,
     <<"N", "A">>,
     <<"N", "U", "L", "L">>,
     <<"N", "a", "N">>,
     <<"N", "o", "n", "e">>,
     <<"n", "/", "a">>,
     <<"n", "a", "n">>,
     <<"n", "u", "l", "l">>}

IsDigits(c) == c # <<>> /\ \A i \in DOMAIN c : c[i] \in Digits
IsIntText(c) == IsDigits(c)
IsFloatText(c) ==
    \E k \in DOMAIN c :
        /\ c[k] = "." /\ Len(c) > 1
        /\ \A i \in DOMAIN c \ {k} : c[i] \in Digits
RECURSIVE StripZerosLeft(_)
StripZerosLeft(d) == IF Len(d) > 1 /\ d[1] = "0" THEN StripZerosLeft(Tail(d)) ELSE d
RECURSIVE StripZerosRight(_)
StripZerosRight(d) ==
    IF Len(d) > 1 /\ d[Len(d)] = "0" THEN StripZerosRight(SubSeq(d, 1, Len(d) - 1)) ELSE d
\* int(text) and float(text) of a numeric text, as Python prints them
IntRepr(c) == StripZerosLeft(c)
FloatRepr(c) ==
    IF IsIntText(c) THEN StripZerosLeft(c) \o <<".", "0">>
    ELSE LET k == CHOOSE i \in DOMAIN c : c[i] = "."
             whole == IF k = 1 THEN <<"0">> ELSE StripZerosLeft(SubSeq(c, 1, k - 1))
             frac == IF k = Len(c) THEN <<"0">> ELSE StripZerosRight(SubSeq(c, k + 1, Len(c)))
         IN whole \o <<".">> \o frac
\* int(x) of a float: the digits before the point
Truncated(c) == SubSeq(c, 1, (CHOOSE i \in DOMAIN c : c[i] = ".") - 1)

\* a value of a DataFrame: NaN, or a value of an int64, float64 or object
\* (str) column, with the text Python prints for it
NaN == [kind |-> "nan", s |-> <<>>]
Value(kind, c) == [kind |-> kind, s |-> c]
notna(v) == v.kind # "nan"

\* the dtype pd.read_csv infers for column j of the data lines
ColumnDtype(lines, j) ==
    LET present == {i \in DOMAIN lines : lines[i][j] \notin NaValues} IN
    IF lines = <<>> THEN "object"
    ELSE IF \A i \in present : IsIntText(lines[i][j])
         THEN IF present = DOMAIN lines THEN "int64" ELSE "float64"
    ELSE IF \A i \in present : IsIntText(lines[i][j]) \/ IsFloatText(lines[i][j])
         THEN "float64"
    ELSE "object"
ParseCell(c, dtype) ==
    IF c \in NaValues THEN NaN
    ELSE CASE dtype = "int64" -> Value("int", IntRepr(c))
           [] dtype = "float64" -> Value("float", FloatRepr(c))
           [] OTHER -> Value("str", c)
\* pd.read_csv: the rows of the DataFrame for the data lines of the file
read_csv(lines) ==
    [i \in DOMAIN lines |->
        [j \in DOMAIN lines[i] |-> ParseCell(lines[i][j], ColumnDtype(lines, j))]]
\* df.to_csv(index=False): the data lines written for the rows
to_csv(rows) ==
    [i \in DOMAIN rows |-> [j \in DOMAIN rows[i] |-> rows[i][j].s]]

\* the keys of extracted_data, in the order they are set
ExtractedKeys ==
    <<<<"o", "r", "d", "e", "r", "_", "i", "d">>,
      <<"c", "u", "s", "t", "o", "m", "e", "r", "_", "i", "d">>,
      <<"o", "r", "d", "e", "r", "_", "s", "t", "a", "t", "u", "s">>,
      <<"o", "r", "d", "e", "r", "_", "p", "u", "r", "c", "h", "a", "s", "e", "_", "t", "i", "m", "e", "s", "t", "a", "m", "p">>,
      <<"o", "r", "d", "e", "r", "_", "a", "p", "p", "r", "o", "v", "e", "d", "_", "a", "t">>,
      <<"o", "r", "d", "e", "r", "_", "d", "e", "l", "i", "v", "e", "r", "e", "d", "_", "t", "i", "m", "e", "s", "t", "a", "m", "p">>,
      <<"o", "r", "d", "e", "r", "_", "e", "s", "t", "i", "m", "a", "t", "e", "d", "_", "d", "e", "l", "i", "v", "e", "r", "y", "_", "d", "a", "t", "e">>,
      <<"c", "u", "s", "t", "o", "m", "e", "r", "_", "z", "i", "p", "_", "c", "o", "d", "e", "_", "p", "r", "e", "f", "i", "x">>,
      <<"c", "u", "s", "t", "o", "m", "e", "r", "_", "c", "i", "t", "y">>,
      <<"c", "u", "s", "t", "o", "m", "e", "r", "_", "s", "t", "a", "t", "e">>,
      <<"p", "r", "o", "d", "u", "c", "t", "_", "i", "d">>,
      <<"s", "e", "l", "l", "e", "r", "_", "i", "d">>,
      <<"p", "r", "i", "c", "e">>,
      <<"s", "h", "i", "p", "p", "i", "n", "g", "_", "c", "h", "a", "r", "g", "e", "s">>,
      <<"p", "a", "y", "m", "e", "n", "t", "_", "s", "e", "q", "u", "e", "n", "t", "i", "a", "l">>,
      <<"p", "a", "y", "m", "e", "n", "t", "_", "t", "y", "p", "e">>,
      <<"p", "a", "y", "m", "e", "n", "t", "_", "i", "n", "s", "t", "a", "l", "l", "m", "e", "n", "t", "s">>,
      <<"p", "a", "y", "m", "e", "n", "t", "_", "v", "a", "l", "u", "e">>,
      <<"p", "r", "o", "d", "u", "c", "t", "_", "c", "a", "t", "e", "g", "o", "r", "y", "_", "n", "a", "m", "e">>,
      <<"p", "r", "o", "d", "u", "c", "t", "_", "w", "e", "i", "g", "h", "t", "_", "g">>,
      <<"p", "r", "o", "d", "u", "c", "t", "_", "l", "e", "n", "g", "t", "h", "_", "c", "m">>,
      <<"p", "r", "o", "d", "u", "c", "t", "_", "h", "e", "i", "g", "h", "t", "_", "c", "m">>,
      <<"p", "r", "o", "d", "u", "c", "t", "_", "w", "i", "d", "t", "h", "_", "c", "m">>>>
\* the conversion applied to each column: str(x), str(int(x)), float(x), int(x)
Conversions ==
    <<"str", "str", "str", "str", "str", "str", "str", "zip", "str", "str", "str", "str", "float", "float", "int", "str", "int", "float", "str", "float", "float", "float", "float">>

\* int(x): [exc, s]
ToInt(v) ==
    CASE v.kind = "int" -> [exc |-> "", s |-> v.s]
      [] v.kind = "float" -> [exc |-> "", s |-> Truncated(v.s)]
      [] OTHER -> IF IsIntText(v.s) THEN [exc |-> "", s |-> IntRepr(v.s)]
                  ELSE [exc |-> "ValueError", s |-> <<>>]
\* float(x): [exc, s]
ToFloat(v) ==
    CASE v.kind = "int" -> [exc |-> "", s |-> FloatRepr(v.s)]
      [] v.kind = "float" -> [exc |-> "", s |-> v.s]
      [] OTHER -> IF IsIntText(v.s) \/ IsFloatText(v.s) THEN [exc |-> "", s |-> FloatRepr(v.s)]
                  ELSE [exc |-> "ValueError", s |-> <<>>]
\* one assignment extracted_data[key] = conversion(first_row[j]) if
\* pd.notna(first_row[j]) else None: [exc, val]
Converted(how, v) ==
    IF ~notna(v) THEN [exc |-> "", val |-> PyNone]
    ELSE CASE how = "str" -> [exc |-> "", val |-> PyStr(v.s)]
           [] how = "zip" -> [exc |-> ToInt(v).exc, val |-> PyStr(ToInt(v).s)]
           [] how = "float" -> [exc |-> ToFloat(v).exc, val |-> PyInt(ToFloat(v).s)]
           [] OTHER -> [exc |-> ToInt(v).exc, val |-> PyInt(ToInt(v).s)]
\* the assignments of transform_to_json for a first row: [exc, val]
ExtractFirstRow(first_row) ==
    IF \E j \in DOMAIN first_row : Converted(Conversions[j], first_row[j]).exc # ""
    THEN [exc |-> "ValueError", val |-> PyDict(<<>>)]
    ELSE [exc |-> "",
          val |-> PyDict([j \in DOMAIN first_row |->
                            Item(ExtractedKeys[j], Converted(Conversions[j], first_row[j]).val)])]

\* what extract_data_from_csv returns: a DataFrame, or None
DataFrame(rows) == [none |-> FALSE, rows |-> rows]
NoDataFrame == [none |-> TRUE, rows |-> <<>>]
\* df.iloc[1:]
Remaining(rows) == SubSeq(rows, 2, Len(rows))

\* json.dumps(d, indent=4) of a dict of strings, numbers and None
RECURSIVE IndentedItems(_, _)
IndentedItems(d, n) ==
    LET one == <<"\n", " ", " ", " ", " ", "\"">> \o d.kids[n].k \o <<"\"", ":", " ">>
               \o json_dumps(d.kids[n].v)
    IN  IF n = Len(d.kids) THEN one ELSE one \o <<",">> \o IndentedItems(d, n + 1)
json_dumps_indent(d) ==
    IF d.kids = <<>> THEN <<"{", "}">>
    ELSE <<"{">> \o IndentedItems(d, 1) \o <<"\n", "}">>

\* a data line of the source CSV: the order id, the zip code prefix, the
\* value of the float columns; text in the other str columns, 1 in the int
\* columns
CsvLine(id, zip, amount) ==
    [j \in DOMAIN Conversions |->
        CASE j = 1 -> id
          [] Conversions[j] = "zip" -> zip
          [] Conversions[j] = "float" -> amount
          [] Conversions[j] = "int" -> <<"1">>
          [] OTHER -> <<"s">>]
\* the data lines of data/df_pubsub.csv when the DAG is first run
SourceCsvs ==
    {<<>>,
     <<CsvLine(<<"o", "1">>, <<"7">>, <<"7", ".", "5">>)>>,
     <<CsvLine(<<"o", "1">>, <<"7">>, <<"7", ".", "5">>),
       CsvLine(<<"o", "2">>, <<>>, <<"1", "2">>),
       CsvLine(<<"o", "3">>, <<"1", "2">>, <<>>)>>,
     <<CsvLine(<<"o", "1">>, <<"7">>, <<"a", "b">>),
       CsvLine(<<"o", "2">>, <<"7">>, <<"7">>)>>}
MaxDagRuns == 3
DagRunIds == 1 .. MaxDagRuns
\* the DAG sets no max_active_runs: runs are active side by side, up to the
\* scheduler's limit
MaxActiveRuns == 2

(***************************************************************************)
(* Tables: rows, load jobs and the MERGE statement                         *)
(***************************************************************************)
\* the schema of the load jobs, and the key of the MERGE
SchemaFields ==
    <<"order_id", "customer_id", "order_status", "order_purchase_timestamp",
      "order_approved_at", "order_delivered_timestamp", "order_estimated_delivery_date",
      "customer_zip_code_prefix", "customer_city", "customer_state", "product_id",
      "seller_id", "price", "shipping_charges", "payment_sequential", "payment_type",
      "payment_installments", "payment_value", "product_category_name",
      "product_weight_g", "product_length_cm", "product_height_cm", "product_width_cm">>
MergeKey == "order_id"
\* an UPDATE SET list that leaves a column out
UpdateSetWithoutPrice == SelectSeq(SchemaFields, LAMBDA c : c \notin {MergeKey, "price"})
\* the columns assigned by WHEN MATCHED THEN UPDATE SET
UpdateSet ==
    <<"customer_id", "order_status", "order_purchase_timestamp",
      "order_approved_at", "order_delivered_timestamp", "order_estimated_delivery_date",
      "customer_zip_code_prefix", "customer_city", "customer_state", "product_id",
      "seller_id", "price", "shipping_charges", "payment_sequential", "payment_type",
      "payment_installments", "payment_value", "product_category_name",
      "product_weight_g", "product_length_cm", "product_height_cm", "product_width_cm">>
\* the columns of WHEN NOT MATCHED THEN INSERT (...) VALUES (...)
InsertColumns ==
    <<"order_id", "customer_id", "order_status", "order_purchase_timestamp",
      "order_approved_at", "order_delivered_timestamp", "order_estimated_delivery_date",
      "customer_zip_code_prefix", "customer_city", "customer_state", "product_id",
      "seller_id", "price", "shipping_charges", "payment_sequential", "payment_type",
      "payment_installments", "payment_value", "product_category_name",
      "product_weight_g", "product_length_cm", "product_height_cm", "product_width_cm">>
ColumnsOf(list) == {list[i] : i \in DOMAIN list}
Null == "NULL"

\* a line of an uploaded file: an order with its key and, in every other
\* column, the value of that version of the order
Order(id, version) == [c \in ColumnsOf(SchemaFields) |-> IF c = MergeKey THEN id ELSE version]
\* the lines of the objects in storage (newline-delimited JSON)
Lines(object) ==
    CASE object = <<InBucket, FileA>> -> <<Order("1", "a")>>
      [] object = <<InBucket, FileB>> -> <<Order("1", "b"), Order("2", "b")>>
      [] object = <<OtherBucket, FileA>> -> <<Order("3", "x"), Order("3", "y")>>
      [] OTHER -> <<>>
\* the rows a load job reads from its lines
RowsOf(lines) ==
    [r \in {lines[i] : i \in DOMAIN lines} |-> Cardinality({i \in DOMAIN lines : lines[i] = r})]

\* a load job that appends where it should replace
AppendToStaging == "WRITE_APPEND"
\* write_disposition of the load job of each variant
AppendWriteDisposition == "WRITE_APPEND"
StagingWriteDisposition == "WRITE_TRUNCATE"
\* the table after a successful load job
LoadInto(table, rows, disposition) ==
    IF disposition = "WRITE_TRUNCATE" THEN rows ELSE table (+) rows

RECURSIVE SumOver(_, _)
SumOver(bag, rows) ==
    IF rows = {} THEN 0
    ELSE LET r == CHOOSE x \in rows : TRUE IN bag[r] + SumOver(bag, rows \ {r})
\* ON target.order_id = source.order_id
Matching(source, t) == {r \in DOMAIN source : r[MergeKey] = t[MergeKey]}
Matched(target, r) == \E t \in DOMAIN target : t[MergeKey] = r[MergeKey]
\* a target row matched by more than one source row: the statement fails
MergeFails(target, source) ==
    \E t \in DOMAIN target : SumOver(source, Matching(source, t)) > 1
\* WHEN MATCHED THEN UPDATE SET ...
UpdateRow(t, r) == [c \in DOMAIN t |-> IF c \in ColumnsOf(UpdateSet) THEN r[c] ELSE t[c]]
\* WHEN NOT MATCHED THEN INSERT (...) VALUES (...)
InsertRow(r) ==
    [c \in ColumnsOf(SchemaFields) |-> IF c \in ColumnsOf(InsertColumns) THEN r[c] ELSE Null]
MergedRow(source, t) ==
    IF Matching(source, t) = {} THEN t ELSE UpdateRow(t, CHOOSE r \in Matching(source, t) : TRUE)
\* the target table after a MERGE that did not fail
Merged(target, source) ==
    LET unmatched == {r \in DOMAIN source : ~Matched(target, r)}
        result == {MergedRow(source, t) : t \in DOMAIN target} \cup {InsertRow(r) : r \in unmatched}
    IN [x \in result |->
            SumOver(target, {t \in DOMAIN target : MergedRow(source, t) = x})
          + SumOver(source, {r \in unmatched : InsertRow(r) = x})]

VARIABLES
    deployed,             \* the function deployed: "append", "staging", "storage_event"
    ARCHIVE_BUCKET_NAME,  \* os.environ.get('ARCHIVE_BUCKET_NAME')
    STAGING_BUCKET_NAME,  \* os.environ.get('STAGING_BUCKET_NAME')
    objects,              \* the objects in storage: <<bucket, name>>
    datasets,             \* the datasets of the warehouse
    delivered,            \* triggers delivered so far
    pc,                   \* per instance: the external call it is about to make
    event,                \* per instance: the trigger payload (an id of Events)
    bucket_name,          \* per instance: local bucket_name
    file_name,            \* per instance: local file_name
    calls,                \* per instance: the external calls made, <<call, result>>
    outcome,              \* per instance: how the invocation ended
    archive_source,       \* per instance: the bucket the archiver takes the object from
    source_seen,          \* per instance: was the object there when archiving began
    staging_table,        \* the rows of the staging table (a bag)
    final_table,          \* the rows of the orders table (a bag)
    csv_blob,             \* the data lines of data/df_pubsub.csv
    json_bucket,          \* the JSON files in the bucket, oldest name first: [name, body]
    dag_task,             \* per DAG run: the task it is about to run, or how it ended
    df,                   \* per DAG run: the XCom of extract_data_from_csv: [none, rows]
    extracted_data,       \* per DAG run: the XCom of transform_to_json
    dag_runs,             \* the DAG runs started so far
    source_csv,           \* the data lines of the CSV before the first run
    succeeded,            \* the DAG runs whose three tasks succeeded
    clock,                \* the second datetime.now() gave last (0: not read yet)
    blob_name,            \* per DAG run: the second in blob_name (0: not set yet)
    data_list,            \* per instance: local data of the storage-event function
    json_rows             \* per instance: the rows handed to load_table_from_json

config == <<deployed, ARCHIVE_BUCKET_NAME, STAGING_BUCKET_NAME>>
tables == <<staging_table, final_table>>
world == <<objects, datasets, tables>>
locals == <<pc, event, bucket_name, file_name, calls, outcome, archive_source, source_seen>>
simulation == <<csv_blob, json_bucket, dag_task, df, extracted_data, dag_runs, source_csv,
                succeeded, clock, blob_name>>
loaded == <<data_list, json_rows>>
vars == <<config, world, delivered, locals, simulation, loaded>>

Pending == [result |-> "pending", how |-> "", exc |-> "", at |-> ""]
Ended(result, how, exc, at) == [result |-> result, how |-> how, exc |-> exc, at |-> at]

\* the object gs://{bucket_name}/{file_name} of instance s
SourceObject(s) == <<FormatStr(bucket_name[s]), FormatStr(file_name[s])>>
\* the same name in the archive bucket
ArchiveObject(s) == <<FormatStr(ARCHIVE_BUCKET_NAME), FormatStr(file_name[s])>>
\* new_name=f"gs://{ARCHIVE_BUCKET_NAME}/{destination_blob_name}", in the source bucket
RenamedObject(s) ==
    <<FormatStr(bucket_name[s]),
      <<"g", "s", ":", "/", "/">> \o FormatStr(ARCHIVE_BUCKET_NAME) \o <<"/">> \o FormatStr(file_name[s])>>

Init ==
    /\ \E c \in Configs :
         /\ deployed = c.deployed
         /\ ARCHIVE_BUCKET_NAME = c.archive
         /\ STAGING_BUCKET_NAME = c.staging_bucket
    /\ objects = {<<InBucket, FileA>>, <<InBucket, FileB>>, <<OtherBucket, FileA>>}
    /\ datasets \in {{}, {DATASET_ID, STAGING_DATASET_ID}}
    /\ delivered = 0
    /\ pc = [s \in Instances |-> "idle"]
    /\ event = [s \in Instances |-> "no_data"]
    /\ bucket_name = [s \in Instances |-> PyNone]
    /\ file_name = [s \in Instances |-> PyNone]
    /\ calls = [s \in Instances |-> <<>>]
    /\ outcome = [s \in Instances |-> Pending]
    /\ archive_source = [s \in Instances |-> PyNone]
    /\ source_seen = [s \in Instances |-> "unseen"]
    /\ staging_table = EmptyBag
    /\ final_table = EmptyBag
    /\ source_csv \in (IF deployed \in Workflows THEN SourceCsvs ELSE {<<>>})
    /\ csv_blob = source_csv
    /\ json_bucket = <<>>
    /\ dag_task = [r \in DagRunIds |-> "none"]
    /\ df = [r \in DagRunIds |-> NoDataFrame]
    /\ extracted_data = [r \in DagRunIds |-> PyDict(<<>>)]
    /\ dag_runs = 0
    /\ succeeded = 0
    /\ clock = 0
    /\ blob_name = [r \in DagRunIds |-> 0]
    /\ data_list = [s \in Instances |-> PyNone]
    /\ json_rows = [s \in Instances |-> PyNone]

(***************************************************************************)
(* Steps of an invocation                                                  *)
(***************************************************************************)
Log(s, call, result) == calls' = [calls EXCEPT ![s] = Append(@, <<call, result>>)]
Goto(s, next) == pc' = [pc EXCEPT ![s] = next] /\ UNCHANGED outcome
Finish(s, o) == pc' = [pc EXCEPT ![s] = "done"] /\ outcome' = [outcome EXCEPT ![s] = o]

\* the except clauses that close a Pub/Sub function: "except ValueError" returns
\* None, "except Exception" re-raises
OuterHandler(exc) == IF IsValueError(exc) THEN "returned" ELSE "raised"
Fail(s, exc, at) == Finish(s, Ended(OuterHandler(exc), "error", exc, at))

\* the entry point is called with a trigger: the trigger adapter runs
Deliver(s, e) ==
    /\ deployed \in Deployments
    /\ pc[s] \in {"idle", "done"}
    /\ delivered < MaxDeliveries
    /\ delivered' = delivered + 1
    /\ event' = [event EXCEPT ![s] = e]
    /\ calls' = [calls EXCEPT ![s] = <<>>]
    /\ archive_source' = [archive_source EXCEPT ![s] = PyNone]
    /\ source_seen' = [source_seen EXCEPT ![s] = "unseen"]
    /\ \E r \in {Adapted[deployed][e]} :
         /\ bucket_name' = [bucket_name EXCEPT ![s] = r.bucket_name]
         /\ file_name' = [file_name EXCEPT ![s] = r.file_name]
         /\ pc' = [pc EXCEPT ![s] =
                     IF r.exc # "" \/ r.skip THEN "done"
                     ELSE IF deployed = "storage_event" THEN "download" ELSE "clients"]
         /\ outcome' = [outcome EXCEPT ![s] =
                     CASE r.exc # "" /\ deployed \in PubSub ->
                            Ended(OuterHandler(r.exc), "error", r.exc, "trigger")
                       [] r.exc # "" -> Ended("raised", "error", r.exc, "trigger")
                       [] r.skip -> Ended("returned", "not_json_skip", "", "")
                       [] OTHER -> Pending]
    /\ data_list' = [data_list EXCEPT ![s] = PyNone]
    /\ json_rows' = [json_rows EXCEPT ![s] = PyNone]
    /\ UNCHANGED <<config, simulation, world>>

\* bigquery.Client(...), storage.Client(...)
InitClients(s) ==
    /\ pc[s] = "clients"
    /\ \/ Log(s, "Client", "ok")
          /\ Goto(s, IF deployed = "staging" THEN "check_staging_dataset" ELSE "check_dataset")
       \/ \E c \in ExternalFailures : Log(s, "Client", "raised") /\ Fail(s, c, "clients")
    /\ UNCHANGED <<config, simulation, loaded, world, delivered, event, bucket_name, file_name,
                   archive_source, source_seen>>

DatasetAt(p) ==
    IF p \in {"check_staging_dataset", "create_staging_dataset"}
    THEN STAGING_DATASET_ID ELSE DATASET_ID
AfterEnsure(p) ==
    IF p \in {"check_staging_dataset", "create_staging_dataset"} THEN "check_dataset" ELSE "load"
CreateFor(p) == IF p = "check_staging_dataset" THEN "create_staging_dataset" ELSE "create_dataset"

\* check_dataset_exists: True, False on "Not found", any other error re-raised
CheckDataset(s) ==
    /\ pc[s] \in {"check_staging_dataset", "check_dataset"}
    /\ \/ DatasetAt(pc[s]) \in datasets
          /\ Log(s, "get_dataset", "True") /\ Goto(s, AfterEnsure(pc[s]))
       \/ DatasetAt(pc[s]) \notin datasets
          /\ Log(s, "get_dataset", "Not found") /\ Goto(s, CreateFor(pc[s]))
       \/ \E c \in ExternalFailures : Log(s, "get_dataset", "raised") /\ Fail(s, c, "dataset")
    /\ UNCHANGED <<config, simulation, loaded, world, delivered, event, bucket_name, file_name,
                   archive_source, source_seen>>

\* create_bigquery_dataset: create_dataset(exists_ok=True), any error re-raised
CreateDataset(s) ==
    /\ pc[s] \in {"create_staging_dataset", "create_dataset"}
    /\ \/ /\ datasets' = datasets \cup {DatasetAt(pc[s])}
          /\ Log(s, "create_dataset", "ok") /\ Goto(s, AfterEnsure(pc[s]))
       \/ /\ \E c \in ExternalFailures :
                Log(s, "create_dataset", "raised") /\ Fail(s, c, "dataset")
          /\ UNCHANGED datasets
    /\ UNCHANGED <<config, simulation, loaded, objects, tables, delivered, event, bucket_name, file_name,
                   archive_source, source_seen>>

\* a loader that does not look at the error list of the finished job
LoadErrorsIgnored(errors) == FALSE
\* "if load_job.errors: raise Exception(...)": a job that reports errors aborts
LoadErrorsRaise(errors) == errors
\* a query runner that does not look at the error list of the finished job
QueryErrorsIgnored(errors) == FALSE
\* execute_bigquery_query: "if job.errors: raise Exception(...)"
QueryErrorsRaise(errors) == errors

Seen(s) == IF SourceObject(s) \in objects THEN "present" ELSE "missing"

\* what follows a load that is taken as successful
AfterLoad(s) ==
    IF deployed = "staging" THEN Goto(s, "merge")
    ELSE IF Truthy(ARCHIVE_BUCKET_NAME) THEN Goto(s, "exists")
    ELSE Finish(s, Ended("returned", "completed", "", ""))

\* load_table_from_uri(gcs_uri, ...) and load_job.result(): the append
\* variant loads into the orders table, the staging variant into the staging
\* table; a job that fails writes nothing
Load(s) ==
    /\ pc[s] = "load"
    /\ \/ /\ SourceObject(s) \in objects
          /\ Log(s, "load", "ok") /\ AfterLoad(s)
          /\ IF deployed = "staging"
             THEN /\ staging_table' = LoadInto(staging_table, RowsOf(Lines(SourceObject(s))),
                                               StagingWriteDisposition)
                  /\ UNCHANGED final_table
             ELSE /\ final_table' = LoadInto(final_table, RowsOf(Lines(SourceObject(s))),
                                             AppendWriteDisposition)
                  /\ UNCHANGED staging_table
       \/ /\ Log(s, "load", "errors")
          /\ IF LoadErrorsRaise(TRUE) THEN Fail(s, "Exception", "load") ELSE AfterLoad(s)
          /\ UNCHANGED tables
       \/ /\ \E c \in ExternalFailures : Log(s, "load", "raised") /\ Fail(s, c, "load")
          /\ UNCHANGED tables
    /\ UNCHANGED <<config, simulation, loaded, objects, datasets, delivered, event, bucket_name, file_name,
                   archive_source, source_seen>>

\* an archive_file that finds storage_client as a global
StorageClientBound == FALSE
\* archive_file reads storage_client, which load_json_from_gcs_to_bigquery
\* binds as a local: the name is unbound in archive_file
StorageClientUnbound == TRUE
\* how the call of archive_file ends
ArchiveFileResult == IF StorageClientUnbound THEN "raised" ELSE "ok"

\* archive_file(file_name) of the staging variant: the name storage_client is
\* bound in load_json_from_gcs_to_bigquery only (a local), so its lookup in
\* archive_file raises NameError before any storage call; the except clause
\* of archive_file re-raises
ArchiveFile(s) ==
    /\ archive_source' = [archive_source EXCEPT ![s] = STAGING_BUCKET_NAME]
    /\ source_seen' = [source_seen EXCEPT ![s] = Seen(s)]
    /\ IF StorageClientUnbound THEN Fail(s, "NameError", "archive")
       ELSE Finish(s, Ended("returned", "completed", "", ""))

\* execute_bigquery_query(bq_client, merge_query), then archive_file(file_name)
Merge(s) ==
    /\ pc[s] = "merge"
    /\ \/ /\ ~MergeFails(final_table, staging_table)
          /\ final_table' = Merged(final_table, staging_table)
          /\ calls' = [calls EXCEPT ![s] = @ \o <<<<"merge", "ok">>, <<"archive_file", ArchiveFileResult>>>>]
          /\ ArchiveFile(s)
       \/ /\ UNCHANGED final_table
          /\ IF QueryErrorsRaise(TRUE)
             THEN /\ Log(s, "merge", "errors")
                  /\ Fail(s, "Exception", "merge")
                  /\ UNCHANGED <<archive_source, source_seen>>
             ELSE /\ calls' = [calls EXCEPT ![s] =
                                  @ \o <<<<"merge", "errors">>, <<"archive_file", ArchiveFileResult>>>>]
                  /\ ArchiveFile(s)
       \/ /\ \E c \in ExternalFailures : Log(s, "merge", "raised") /\ Fail(s, c, "merge")
          /\ UNCHANGED <<archive_source, source_seen, final_table>>
    /\ UNCHANGED <<config, simulation, loaded, objects, datasets, staging_table, delivered, event, bucket_name,
                   file_name>>

\* an archiver that deletes the original before it copies it
DeleteBeforeCopy == <<"delete", "copy_blob", "rename_blob">>
\* the storage calls of the append variant's archiver, in the order issued
ArchiveOrder == <<"copy_blob", "delete", "rename_blob">>
FirstArchiveStep == ArchiveOrder[1]
\* after archive call p returned: the next call, or the end of the function
Proceed(s, p) ==
    LET k == IndexOf(ArchiveOrder, p) IN
    IF k < Len(ArchiveOrder) THEN Goto(s, ArchiveOrder[k + 1])
    ELSE Finish(s, Ended("returned", "completed", "", ""))

\* source_blob.exists(): a missing object ends the invocation with a warning
Exists(s) ==
    /\ pc[s] = "exists"
    /\ archive_source' = [archive_source EXCEPT ![s] = bucket_name[s]]
    /\ \/ /\ SourceObject(s) \in objects
          /\ source_seen' = [source_seen EXCEPT ![s] = "present"]
          /\ Log(s, "exists", "True") /\ Goto(s, FirstArchiveStep)
       \/ /\ SourceObject(s) \notin objects
          /\ source_seen' = [source_seen EXCEPT ![s] = "missing"]
          /\ Log(s, "exists", "False")
          /\ Finish(s, Ended("returned", "missing_object_skip", "", ""))
       \/ /\ \E c \in ExternalFailures : Log(s, "exists", "raised") /\ Fail(s, c, "archive")
          /\ UNCHANGED source_seen
    /\ UNCHANGED <<config, simulation, loaded, world, delivered, event, bucket_name, file_name>>

\* source_bucket.copy_blob(source_blob, archive_bucket, destination_blob_name)
CopyBlob(s) ==
    /\ pc[s] = "copy_blob"
    /\ \/ /\ SourceObject(s) \in objects
          /\ objects' = objects \cup {ArchiveObject(s)}
          /\ Log(s, "copy_blob", "ok") /\ Proceed(s, "copy_blob")
       \/ /\ \E c \in ExternalFailures : Log(s, "copy_blob", "raised") /\ Fail(s, c, "archive")
          /\ UNCHANGED objects
    /\ UNCHANGED <<config, simulation, loaded, datasets, tables, delivered, event, bucket_name, file_name,
                   archive_source, source_seen>>

\* source_blob.delete()
Delete(s) ==
    /\ pc[s] = "delete"
    /\ \/ /\ SourceObject(s) \in objects
          /\ objects' = objects \ {SourceObject(s)}
          /\ Log(s, "delete", "ok") /\ Proceed(s, "delete")
       \/ /\ \E c \in ExternalFailures : Log(s, "delete", "raised") /\ Fail(s, c, "archive")
          /\ UNCHANGED objects
    /\ UNCHANGED <<config, simulation, loaded, datasets, tables, delivered, event, bucket_name, file_name,
                   archive_source, source_seen>>

\* source_bucket.rename_blob(source_blob, new_name=...): a copy to the new
\* name in the source bucket and a delete of the old one; its failure is
\* logged as a warning and the function goes on
RenameBlob(s) ==
    /\ pc[s] = "rename_blob"
    /\ \/ /\ SourceObject(s) \in objects
          /\ objects' = (objects \ {SourceObject(s)}) \cup {RenamedObject(s)}
          /\ Log(s, "rename_blob", "ok")
       \/ /\ Log(s, "rename_blob", "raised")
          /\ UNCHANGED objects
    /\ Proceed(s, "rename_blob")
    /\ UNCHANGED <<config, simulation, loaded, datasets, tables, delivered, event, bucket_name, file_name,
                   archive_source, source_seen>>

\* storage-event function: storage_client.bucket(bucket_name).blob(file_name)
\* .download_as_text(); every exception in the try block is logged and the
\* function returns
Download(s) ==
    /\ pc[s] = "download"
    /\ \/ /\ SourceObject(s) \in objects
          /\ Log(s, "download_as_text", "ok")
          /\ \E r \in {json_loads(DocumentText(SourceObject(s)))} :
                IF r.exc # ""
                THEN /\ Finish(s, Ended("returned", "error", r.exc, "download"))
                     /\ UNCHANGED data_list
                ELSE /\ data_list' = [data_list EXCEPT ![s] = EnsureList(r.val)]
                     /\ Goto(s, "load_json")
       \/ /\ Log(s, "download_as_text", "raised")
          /\ Finish(s, Ended("returned", "error", "Exception", "download"))
          /\ UNCHANGED data_list
    /\ UNCHANGED <<config, simulation, json_rows, world, delivered, event, bucket_name,
                   file_name, archive_source, source_seen>>

\* storage-event function: load_table_from_json([data], ...) and
\* load_job.result(); the error list of the job is not read
LoadJson(s) ==
    /\ pc[s] = "load_json"
    /\ json_rows' = [json_rows EXCEPT ![s] = JsonRows(data_list[s])]
    /\ \/ /\ \E r \in {"ok", "errors"} : Log(s, "load_table_from_json", r)
          /\ Finish(s, Ended("returned", "completed", "", ""))
       \/ /\ Log(s, "load_table_from_json", "raised")
          /\ Finish(s, Ended("returned", "error", "Exception", "load"))
    /\ UNCHANGED <<config, simulation, data_list, world, delivered, event, bucket_name, file_name,
                   archive_source, source_seen>>

\* exit(1) and exit(): the script ends at once
Exit(s, at) == Finish(s, Ended("exit", "error", "SystemExit", at))
\* what a script does after its dataset step
AfterDatasetStep(s, how) ==
    IF deployed = "csv_loader" THEN Goto(s, "read_csv")
    ELSE Finish(s, Ended("returned", how, "", ""))

\* a script is started: config.yaml is loaded, its values are read (a
\* section without get raises AttributeError, which no clause catches) and
\* validated; a missing value raises ValueError, which the script answers
\* with exit(1)
RunScript(s, y) ==
    /\ deployed \in Scripts
    /\ pc[s] \in {"idle", "done"}
    /\ delivered < MaxDeliveries
    /\ delivered' = delivered + 1
    /\ event' = [event EXCEPT ![s] = y]
    /\ calls' = [calls EXCEPT ![s] = <<>>]
    /\ IF ~ConfigReadable(deployed, Yamls[y])
       THEN Finish(s, Ended("raised", "error", "AttributeError", "config"))
       ELSE IF ConfigOk(deployed, Yamls[y]) THEN Goto(s, "script_clients")
       ELSE Exit(s, "config")
    /\ UNCHANGED <<config, simulation, loaded, world, bucket_name, file_name, archive_source, source_seen>>

\* setup_logging(project_id, log_name), whose except clause itself fails
\* (utils.py: logger is unbound; masterdata_to_bq.py: logging is not
\* imported), then bigquery.Client(project=project_id), whose failure is
\* answered with exit(1)
ScriptClients(s) ==
    /\ pc[s] = "script_clients"
    /\ \/ /\ Log(s, "Client", "ok")
          /\ IF deployed = "dataset_script" /\ ~CreateDatasetFlag(Yamls[event[s]])
             THEN Finish(s, Ended("returned", "not_created", "", ""))
             ELSE Goto(s, "utils_check")
       \/ /\ Log(s, "logging.Client", "raised")
          /\ Finish(s, Ended("raised", "error",
                             IF deployed = "csv_loader" THEN "NameError" ELSE "UnboundLocalError",
                             "clients"))
       \/ Log(s, "Client", "raised") /\ Exit(s, "clients")
    /\ UNCHANGED <<config, simulation, loaded, world, delivered, event, bucket_name, file_name,
                   archive_source, source_seen>>

\* check_dataset_exists of utils.py and masterdata_to_bq.py: True, False on
\* "Not found", and False as well on any other error
UtilsCheckDataset(s) ==
    /\ pc[s] = "utils_check"
    /\ \/ DATASET_ID \in datasets
          /\ Log(s, "get_dataset", "True") /\ AfterDatasetStep(s, "exists")
       \/ DATASET_ID \notin datasets
          /\ Log(s, "get_dataset", "Not found") /\ Goto(s, "utils_create")
       \/ Log(s, "get_dataset", "raised") /\ Goto(s, "utils_create")
    /\ UNCHANGED <<config, simulation, loaded, world, delivered, event, bucket_name, file_name,
                   archive_source, source_seen>>

\* create_bigquery_dataset of utils.py and masterdata_to_bq.py:
\* client.create_dataset(dataset) without exists_ok, True when it returned,
\* False on any error (a dataset that exists already is a Conflict error).
\* masterdata_to_bq.py answers False with exit(1); create_bq_dataset.py does
\* not look at the result and prints "created"
UtilsCreateDataset(s) ==
    /\ pc[s] = "utils_create"
    /\ \/ /\ DATASET_ID \notin datasets
          /\ datasets' = datasets \cup {DATASET_ID}
          /\ Log(s, "create_dataset", "ok") /\ AfterDatasetStep(s, "created")
       \/ /\ UNCHANGED datasets
          /\ Log(s, "create_dataset", IF DATASET_ID \in datasets THEN "conflict" ELSE "raised")
          /\ IF deployed = "csv_loader" THEN Exit(s, "dataset")
             ELSE Finish(s, Ended("returned", "created", "", ""))
    /\ UNCHANGED <<config, simulation, loaded, objects, tables, delivered, event, bucket_name, file_name,
                   archive_source, source_seen>>

\* pd.read_csv(csv_file_path) and df.to_csv: a failure is answered with exit()
ReadCsv(s) ==
    /\ pc[s] = "read_csv"
    /\ \/ Log(s, "read_csv", "ok") /\ Goto(s, "load_csv")
       \/ Log(s, "read_csv", "raised") /\ Exit(s, "read_csv")
    /\ UNCHANGED <<config, simulation, loaded, world, delivered, event, bucket_name, file_name,
                   archive_source, source_seen>>

\* load_csv_to_bigquery: load_table_from_file and load_job.result(); the
\* error list of the job is not read, and every exception is logged and
\* dropped; the script then prints "Data loading process completed"
LoadCsv(s) ==
    /\ pc[s] = "load_csv"
    /\ \E r \in {"ok", "errors", "raised"} : Log(s, "load_table_from_file", r)
    /\ Finish(s, Ended("returned", "completed", "", ""))
    /\ UNCHANGED <<config, simulation, loaded, world, delivered, event, bucket_name, file_name,
                   archive_source, source_seen>>

\* delete_dataset.py is started: config.yaml is loaded and its values are
\* read with .get (a section without get raises AttributeError, which the
\* script does not catch); nothing is validated yet
RunDeleteScript(s, y) ==
    /\ deployed \in Cleanups
    /\ pc[s] \in {"idle", "done"}
    /\ delivered < MaxDeliveries
    /\ delivered' = delivered + 1
    /\ event' = [event EXCEPT ![s] = y]
    /\ calls' = [calls EXCEPT ![s] = <<>>]
    /\ IF ConfigReadable(deployed, Yamls[y]) THEN Goto(s, "delete_clients")
       ELSE Finish(s, Ended("raised", "error", "AttributeError", "config"))
    /\ UNCHANGED <<config, simulation, loaded, world, bucket_name, file_name, archive_source, source_seen>>

\* setup_logging(project_id, log_name), whose except clause itself fails
\* (utils.py: logger is unbound) with an error the script does not catch,
\* then bigquery.Client(project=project_id), whose failure is answered with
\* exit(1); then "if delete_dataset:"
DeleteScriptClients(s) ==
    /\ pc[s] = "delete_clients"
    /\ \/ /\ Log(s, "Client", "ok")
          /\ Goto(s, IF DeleteDatasetFlag(Yamls[event[s]]) THEN "delete_dataset" ELSE "validate")
       \/ /\ Log(s, "logging.Client", "raised")
          /\ Finish(s, Ended("raised", "error", "UnboundLocalError", "clients"))
       \/ Log(s, "Client", "raised") /\ Exit(s, "clients")
    /\ UNCHANGED <<config, simulation, loaded, world, delivered, event, bucket_name, file_name,
                   archive_source, source_seen>>

\* delete_bigquery_dataset of utils.py: client.delete_dataset(dataset_ref,
\* delete_contents=True, not_found_ok=True); every exception is logged and
\* printed, and the script prints "deleted" either way
delete_bigquery_dataset(s) ==
    /\ pc[s] = "delete_dataset"
    /\ \/ Log(s, "delete_dataset", "ok") /\ datasets' = datasets \ {DATASET_ID}
       \/ Log(s, "delete_dataset", "raised") /\ UNCHANGED datasets
    /\ Goto(s, "validate")
    /\ UNCHANGED <<config, simulation, loaded, objects, tables, delivered, event, bucket_name, file_name,
                   archive_source, source_seen>>

\* the last statement of delete_dataset.py: "if not all([...]): raise
\* ValueError(...)"; the script catches FileNotFoundError only
ValidateDeleteConfig(s) ==
    /\ pc[s] = "validate"
    /\ IF DeleteScriptConfigOk(Yamls[event[s]])
       THEN Finish(s, Ended("returned", "completed", "", ""))
       ELSE Finish(s, Ended("raised", "error", "ValueError", "config"))
    /\ UNCHANGED <<config, simulation, loaded, world, delivered, event, bucket_name, file_name,
                   archive_source, source_seen, calls>>

\* the DAG runs whose tasks are not all done
ActiveRuns == {r \in DagRunIds : dag_task[r] \in {"extract_data_from_csv", "transform_to_json",
                                                   "upload_json_to_gcs"}}

\* the scheduler (every 5 minutes) or a manual trigger starts a DAG run; the
\* DAG sets no max_active_runs, so the runs before it need not have ended.
\* In each run the tasks run in the order read_csv_task >> json_data >>
\* upload_task
StartDagRun ==
    /\ deployed \in Workflows
    /\ dag_runs < MaxDagRuns
    /\ Cardinality(ActiveRuns) < MaxActiveRuns
    /\ dag_runs' = dag_runs + 1
    /\ dag_task' = [dag_task EXCEPT ![dag_runs + 1] = "extract_data_from_csv"]
    /\ UNCHANGED <<config, world, delivered, locals, loaded, csv_blob, json_bucket, df,
                   extracted_data, source_csv, succeeded, clock, blob_name>>

\* extract_data_from_csv: pd.read_csv(gcs_path); any error is printed and
\* the task returns None
extract_data_from_csv(r) ==
    /\ dag_task[r] = "extract_data_from_csv"
    /\ \/ df' = [df EXCEPT ![r] = DataFrame(read_csv(csv_blob))]
       \/ df' = [df EXCEPT ![r] = NoDataFrame]
    /\ dag_task' = [dag_task EXCEPT ![r] = "transform_to_json"]
    /\ UNCHANGED <<config, world, delivered, locals, loaded, csv_blob, json_bucket, extracted_data,
                   dag_runs, source_csv, succeeded, clock, blob_name>>

\* transform_to_json: df.copy() of None raises AttributeError; an empty
\* DataFrame gives {} and writes nothing; otherwise the first row is
\* converted (a conversion may raise ValueError), the remaining rows of the
\* DataFrame the run read are written over the CSV (the upload may fail)
\* and the task returns the extracted data
transform_to_json(r) ==
    /\ dag_task[r] = "transform_to_json"
    /\ IF df[r].none
       THEN /\ dag_task' = [dag_task EXCEPT ![r] = "failed"]
            /\ UNCHANGED <<csv_blob, extracted_data>>
       ELSE IF df[r].rows = <<>> THEN
            /\ extracted_data' = [extracted_data EXCEPT ![r] = PyDict(<<>>)]
            /\ dag_task' = [dag_task EXCEPT ![r] = "upload_json_to_gcs"]
            /\ UNCHANGED csv_blob
       ELSE \E x \in {ExtractFirstRow(df[r].rows[1])} :
            IF x.exc # ""
            THEN /\ dag_task' = [dag_task EXCEPT ![r] = "failed"]
                 /\ UNCHANGED <<csv_blob, extracted_data>>
            ELSE \/ /\ csv_blob' = to_csv(Remaining(df[r].rows))
                    /\ extracted_data' = [extracted_data EXCEPT ![r] = x.val]
                    /\ dag_task' = [dag_task EXCEPT ![r] = "upload_json_to_gcs"]
                 \/ /\ dag_task' = [dag_task EXCEPT ![r] = "failed"]
                    /\ UNCHANGED <<csv_blob, extracted_data>>
    /\ UNCHANGED <<config, world, delivered, locals, loaded, json_bucket, df, dag_runs, source_csv,
                   succeeded, clock, blob_name>>

\* datetime.now().strftime("%Y%m%d_%H%M%S"): the second of the reading
\* before, or a later one
Now == IF clock = 0 THEN {1} ELSE {clock, clock + 1}

\* the objects of the bucket whose name is older than the second t
Older(bucket, t) == SelectSeq(bucket, LAMBDA o : o.name < t)
Newer(bucket, t) == SelectSeq(bucket, LAMBDA o : o.name > t)
\* blob.upload_from_string on the blob simulation_{t}.json: the object is
\* created, or the object of that name gets the new content
Uploaded(bucket, t, body) ==
    Older(bucket, t) \o <<[name |-> t, body |-> body]>> \o Newer(bucket, t)

\* upload_json_to_gcs up to its upload: storage.Client(), then the name
\* simulation_{now}.json is fixed from the clock and the text is
\* json.dumps(extracted_data, indent=4); the task may fail, or never run
upload_json_to_gcs(r) ==
    /\ dag_task[r] = "upload_json_to_gcs"
    /\ blob_name[r] = 0
    /\ \/ /\ \E t \in Now :
                /\ clock' = t
                /\ blob_name' = [blob_name EXCEPT ![r] = t]
          /\ UNCHANGED dag_task
       \/ /\ dag_task' = [dag_task EXCEPT ![r] = "failed"]
          /\ UNCHANGED <<clock, blob_name>>
    /\ UNCHANGED <<config, world, delivered, locals, loaded, csv_blob, json_bucket, df,
                   extracted_data, dag_runs, source_csv, succeeded>>

\* blob.upload_from_string(json_string, ...) of upload_json_to_gcs: the
\* blocking call writes the object under the name fixed before; other runs
\* may have uploaded since
upload_from_string(r) ==
    /\ dag_task[r] = "upload_json_to_gcs"
    /\ blob_name[r] # 0
    /\ \/ /\ json_bucket' = Uploaded(json_bucket, blob_name[r],
                                     json_dumps_indent(extracted_data[r]))
          /\ dag_task' = [dag_task EXCEPT ![r] = "success"]
          /\ succeeded' = succeeded + 1
       \/ /\ dag_task' = [dag_task EXCEPT ![r] = "failed"]
          /\ UNCHANGED <<json_bucket, succeeded>>
    /\ UNCHANGED <<config, world, delivered, locals, loaded, csv_blob, df, extracted_data, dag_runs,
                   source_csv, clock, blob_name>>

\* another actor removes the object a running invocation works on (the
\* archiver's own warning: "It might have been processed already or deleted")
ExternalDelete(s) ==
    /\ pc[s] \notin {"idle", "done"}
    /\ SourceObject(s) \in objects
    /\ objects' = objects \ {SourceObject(s)}
    /\ UNCHANGED <<config, simulation, loaded, datasets, tables, delivered, locals>>

\* another actor creates the dataset a run found missing, before the run
\* creates it
ExternalCreateDataset(s) ==
    /\ pc[s] \in {"create_staging_dataset", "create_dataset", "utils_create"}
    /\ DatasetAt(pc[s]) \notin datasets
    /\ datasets' = datasets \cup {DatasetAt(pc[s])}
    /\ UNCHANGED <<config, simulation, loaded, objects, tables, delivered, locals>>

\* one invocation at a time: the first instance serves every trigger
Single == {s \in Instances : \A t \in Instances : s <= t}

Next ==
    \/ \E s \in Single, e \in EventIds : Deliver(s, e)
    \/ \E s \in Single : InitClients(s)
    \/ \E s \in Single : CheckDataset(s)
    \/ \E s \in Single : CreateDataset(s)
    \/ \E s \in Single : Load(s)
    \/ \E s \in Single : Merge(s)
    \/ \E s \in Single : Exists(s)
    \/ \E s \in Single : CopyBlob(s)
    \/ \E s \in Single : Delete(s)
    \/ \E s \in Single : RenameBlob(s)
    \/ \E s \in Single : Download(s)
    \/ \E s \in Single : LoadJson(s)
    \/ \E s \in Single : ExternalDelete(s)
    \/ \E s \in Single : ExternalCreateDataset(s)
    \/ \E s \in Single, y \in YamlIds : RunScript(s, y)
    \/ \E s \in Single : ScriptClients(s)
    \/ \E s \in Single : UtilsCheckDataset(s)
    \/ \E s \in Single : UtilsCreateDataset(s)
    \/ \E s \in Single : ReadCsv(s)
    \/ \E s \in Single : LoadCsv(s)
    \/ \E s \in Single, y \in YamlIds : RunDeleteScript(s, y)
    \/ \E s \in Single : DeleteScriptClients(s)
    \/ \E s \in Single : delete_bigquery_dataset(s)
    \/ \E s \in Single : ValidateDeleteConfig(s)

\* the functions and the scripts: programs run once per trigger or call
InitInvoked == Init /\ deployed \notin Workflows
Spec == InitInvoked /\ [][Next]_vars

(***************************************************************************)
(* The simulation DAG: the scheduler starts runs, the tasks of the runs    *)
(* under way interleave at their calls to storage                          *)
(***************************************************************************)
InitDag == Init /\ deployed \in Workflows
NextDag ==
    \/ StartDagRun
    \/ \E r \in DagRunIds : extract_data_from_csv(r)
    \/ \E r \in DagRunIds : transform_to_json(r)
    \/ \E r \in DagRunIds : upload_json_to_gcs(r)
    \/ \E r \in DagRunIds : upload_from_string(r)
SpecDag == InitDag /\ [][NextDag]_vars

(***************************************************************************)
(* Concurrent invocations of the staging variant: the host runs an         *)
(* instance per message, the instances interleave at their external calls  *)
(* and work on different objects                                           *)
(***************************************************************************)
ConcurrentEvents == {"ps_a", "ps_b"}
\* the two instances that run side by side
Invocations == {s \in Instances : s <= 2}
\* a message for an object no running instance works on
DeliverOther(s, e) ==
    /\ \A t \in Invocations \ {s} : pc[t] \in {"idle", "done"} \/ event[t] # e
    /\ Deliver(s, e)
InitConcurrent == Init /\ deployed = "staging"
NextConcurrent ==
    \/ \E s \in Invocations, e \in ConcurrentEvents : DeliverOther(s, e)
    \/ \E s \in Invocations : InitClients(s)
    \/ \E s \in Invocations : CheckDataset(s)
    \/ \E s \in Invocations : CreateDataset(s)
    \/ \E s \in Invocations : Load(s)
    \/ \E s \in Invocations : Merge(s)
SpecConcurrent == InitConcurrent /\ [][NextConcurrent]_vars

(***************************************************************************)
(* Properties                                                              *)
(***************************************************************************)
\* instance s made the external call and it ended with the result
Made(s, call, result) == \E i \in DOMAIN calls[s] : calls[s][i] = <<call, result>>
\* instance s made the external call, whatever its result
Issued(s, call) == \E i \in DOMAIN calls[s] : calls[s][i][1] = call
\* the storage calls of an archiver
StorageArchiveCalls == {"exists", "copy_blob", "delete", "rename_blob"}
\* every archive operation, the staging variant's archive_file included
ArchiveCalls == StorageArchiveCalls \cup {"archive_file"}
\* the load of s failed: the call raised, or the job reported errors
LoadFailed(s) == Made(s, "load", "errors") \/ Made(s, "load", "raised")
MergeFailed(s) == Made(s, "merge", "errors") \/ Made(s, "merge", "raised")
\* the stages after the trigger adapter
Stages == {"clients", "dataset", "load", "merge", "archive"}

\* C1: in both Pub/Sub functions, an invocation whose load job failed or
\* reported a non-empty error list issues no archive operation of any kind
\* (existence check, copy, rewrite, delete, rename).
C1_NoArchiveAfterFailedLoad ==
    \A s \in Instances :
        (deployed \in PubSub /\ LoadFailed(s)) => \A c \in ArchiveCalls : ~Issued(s, c)

\* an invocation ended after its load job reported errors
C1_Witness ==
    \E s \in Instances :
        deployed \in PubSub /\ pc[s] = "done" /\ Made(s, "load", "errors")

\* C2: in the staging variant the MERGE is submitted only after the staging
\* load of the same invocation completed without errors, and archive_file is
\* called only after the MERGE completed without errors; a failed load means
\* no MERGE and no archive call, a failed MERGE means no archive call.
C2_StagesGated ==
    \A s \in Instances :
        deployed = "staging" =>
            /\ \A i \in DOMAIN calls[s] :
                 /\ calls[s][i][1] = "merge" =>
                       \E j \in 1..(i - 1) : calls[s][j] = <<"load", "ok">>
                 /\ calls[s][i][1] = "archive_file" =>
                       \E j \in 1..(i - 1) : calls[s][j] = <<"merge", "ok">>
            /\ LoadFailed(s) => ~Issued(s, "merge") /\ ~Issued(s, "archive_file")
            /\ MergeFailed(s) => ~Issued(s, "archive_file")

\* a staging invocation went through load, MERGE and the call of archive_file
C2_Witness ==
    \E s \in Instances :
        /\ deployed = "staging"
        /\ Made(s, "load", "ok") /\ Made(s, "merge", "ok") /\ Issued(s, "archive_file")

\* C3: a Pub/Sub invocation returns normally only if the trigger was
\* rejected before any external call or the pipeline ran to its end, and any
\* failure raised in a later stage is re-raised, whatever its class.
C3_ReraisesWhateverTheClass ==
    \A s \in Instances :
        deployed \in PubSub =>
            /\ outcome[s].result = "returned" =>
                 \/ outcome[s].at = "trigger" /\ calls[s] = <<>>
                 \/ outcome[s].how \in {"completed", "missing_object_skip"}
            /\ (outcome[s].how = "error" /\ outcome[s].at \in Stages) =>
                 outcome[s].result = "raised"

\* C4: a step of a Pub/Sub function that removes the source object from its
\* bucket is taken only after the copy into the archive bucket succeeded, and
\* leaves the object in the archive bucket: the two functions never take the
\* object out of both buckets, whichever archive call fails.
C4_DeleteOnlyAfterCopy ==
    [][\A s \in Instances :
          LET o == SourceObject(s) IN
          (deployed \in PubSub /\ calls'[s] # calls[s] /\ o \in objects /\ o \notin objects')
              => /\ Made(s, "copy_blob", "ok")
                 /\ <<FormatStr(ARCHIVE_BUCKET_NAME), o[2]>> \in objects']_vars

\* the original was deleted after its copy; it is in the archive bucket only
C4_Witness ==
    \E s \in Instances :
        /\ deployed \in PubSub
        /\ Made(s, "copy_blob", "ok") /\ Made(s, "delete", "ok")
        /\ SourceObject(s) \notin objects /\ ArchiveObject(s) \in objects

\* C5: a staging invocation with a well-formed trigger whose dataset ensure,
\* staging load and MERGE succeeded, in a deployment whose archive bucket is
\* set and whose staging bucket is the trigger's bucket, with the object in
\* place, returns normally with the object archived.
C5_StagingSucceeds ==
    \A s \in Instances :
        ( /\ deployed = "staging" /\ pc[s] = "done"
          /\ Truthy(ARCHIVE_BUCKET_NAME) /\ STAGING_BUCKET_NAME = bucket_name[s]
          /\ Made(s, "merge", "ok") /\ source_seen[s] = "present" )
        => /\ outcome[s].result = "returned" /\ outcome[s].how = "completed"
           /\ ArchiveObject(s) \in objects

\* C6: at every entry point, an invocation whose trigger does not yield both
\* a non-empty bucket and a non-empty name makes no external call.
C6_NoCallWithoutBucketAndName ==
    \A s \in Instances :
        (pc[s] # "idle" /\ (~Truthy(bucket_name[s]) \/ ~Truthy(file_name[s])))
            => calls[s] = <<>>

\* C7: in both Pub/Sub functions, an invocation whose trigger adapter fails
\* (data missing, of an unexpected type, not base64, not a JSON object, bucket
\* or name missing or empty) returns normally.
C7_MalformedTriggerAcknowledged ==
    \A s \in Instances :
        (deployed \in PubSub /\ pc[s] = "done" /\ outcome[s].at = "trigger")
            => outcome[s].result = "returned"

\* C8: in both Pub/Sub functions, when the source object is gone at the time
\* the archiver starts, the invocation returns without raising and issues
\* neither a copy nor a delete.
C8_MissingSourceSkipped ==
    \A s \in Instances :
        (deployed \in PubSub /\ pc[s] = "done" /\ source_seen[s] = "missing")
            => /\ outcome[s].result = "returned"
               /\ ~Issued(s, "copy_blob") /\ ~Issued(s, "delete")

\* C9: with ARCHIVE_BUCKET_NAME unset or empty, a Pub/Sub invocation whose
\* load (and MERGE) succeeded completes successfully and issues no storage
\* archive call.
C9_NoArchiveBucketNoOp ==
    \A s \in Instances :
        ( /\ deployed \in PubSub /\ pc[s] = "done" /\ ~Truthy(ARCHIVE_BUCKET_NAME)
          /\ Made(s, "load", "ok")
          /\ deployed = "staging" => Made(s, "merge", "ok") )
        => /\ outcome[s].result = "returned" /\ outcome[s].how = "completed"
           /\ \A c \in StorageArchiveCalls : ~Issued(s, c)

\* C10: in both Pub/Sub functions, an archiver that found the object and
\* whose storage calls did not fail took it from the trigger's bucket and left
\* it in the archive bucket under the same name.
C10_ArchivesTriggerObject ==
    \A s \in Instances :
        ( /\ deployed \in PubSub /\ pc[s] = "done" /\ Truthy(ARCHIVE_BUCKET_NAME)
          /\ source_seen[s] = "present"
          /\ \A c \in StorageArchiveCalls \ {"rename_blob"} : ~Made(s, c, "raised") )
        => /\ archive_source[s] = bucket_name[s]
           /\ ArchiveObject(s) \in objects
           /\ SourceObject(s) \notin objects

\* the calls that submit a load job
LoadCalls == {"load", "load_table_from_json", "load_table_from_file"}
\* the results of a dataset call that confirm the dataset
DatasetConfirmations == {<<"get_dataset", "True">>, <<"create_dataset", "ok">>}
\* the datasets the load of the deployment needs: the staging variant's load
\* and MERGE need the staging and the canonical dataset
DatasetsNeeded == IF deployed = "staging" THEN {STAGING_DATASET_ID, DATASET_ID} ELSE {DATASET_ID}

\* C11: in every pipeline (Pub/Sub functions, storage-event function, CSV
\* loader script) a load job is submitted only after every dataset it needs
\* was confirmed in the same run by a successful existence check or create.
C11_LoadOnlyAfterDatasetConfirmed ==
    \A s \in Instances : \A i \in DOMAIN calls[s] :
        calls[s][i][1] \in LoadCalls =>
            Cardinality({j \in 1..(i - 1) : calls[s][j] \in DatasetConfirmations})
                >= Cardinality(DatasetsNeeded)

\* C12: in every dataset ensurer, an existence check that failed with an
\* error other than "not found" ends the run with that failure: no further
\* call, no create attempt, follows it.
C12_CheckFailurePropagated ==
    \A s \in Instances : \A i \in DOMAIN calls[s] :
        calls[s][i] = <<"get_dataset", "raised">> =>
            /\ i = Len(calls[s])
            /\ pc[s] = "done" /\ outcome[s].how = "error" /\ outcome[s].at = "dataset"

\* C13: in every dataset ensurer, a create call that follows a "not found"
\* check and finds the dataset created by another actor in between is
\* tolerated: the run goes on as with a dataset it created itself.
C13_CreateRaceTolerated ==
    \A s \in Instances : \A i \in DOMAIN calls[s] :
        ( /\ i > 1 /\ calls[s][i - 1] = <<"get_dataset", "Not found">>
          /\ calls[s][i][1] = "create_dataset" /\ calls[s][i][2] # "raised" )
        => ~(i = Len(calls[s]) /\ pc[s] = "done" /\ outcome[s].how = "error")

\* C14: in every bulk loader a load job that fails or reports errors ends
\* the run with a failure: the storage-event function and the CSV loader
\* raise it to their caller, and no run is reported as completed.
C14_FailedLoadRaised ==
    \A s \in Instances : \A i \in DOMAIN calls[s] :
        (calls[s][i][1] \in LoadCalls /\ calls[s][i][2] \in {"errors", "raised"}) =>
            /\ pc[s] = "done" /\ outcome[s].how = "error"
            /\ outcome[s].result = "raised" \/ deployed \in PubSub

\* C16: in the append variant the archiver tries the rename first: a copy
\* is issued only as a fallback, after a rename that failed.
C16_CopyOnlyAfterFailedRename ==
    \A s \in Instances : \A i \in DOMAIN calls[s] :
        (deployed = "append" /\ calls[s][i][1] = "copy_blob") =>
            \E j \in 1..(i - 1) : calls[s][j] = <<"rename_blob", "raised">>

\* triggers that carry a well-formed reference, with the bucket and the name
\* they carry: base64 JSON envelopes, an envelope with a decoded mapping,
\* direct events
EnvelopeReferences ==
    {<<"ps_a", InBucket, FileA>>, <<"ps_b", InBucket, FileB>>,
     <<"ps_other", OtherBucket, FileA>>, <<"ps_dict", InBucket, FileA>>}
DirectReferences == {<<"direct_a", InBucket, FileA>>, <<"direct_txt", InBucket, FileTxt>>}
\* the invocation took the bucket b and the name n from its trigger and
\* went on
Extracted(s, b, n) ==
    /\ bucket_name[s] = PyStr(b) /\ file_name[s] = PyStr(n)
    /\ ~(outcome[s].how = "error" /\ outcome[s].at = "trigger")

\* C17: in both Pub/Sub functions a reference (b, n) is extracted alike from
\* an envelope whose data is base64 JSON, from an envelope whose data is the
\* decoded mapping, and from the direct event {bucket: b, name: n}.
C17_SameReferenceFromEveryForm ==
    \A s \in Instances : \A t \in EnvelopeReferences \cup DirectReferences :
        (deployed \in PubSub /\ pc[s] # "idle" /\ event[s] = t[1]) => Extracted(s, t[2], t[3])

\* C18: every entry point (both Pub/Sub functions and the storage-event
\* function) takes exactly (b, n) from a direct trigger {bucket: b, name: n}
\* without a data field and does not reject it.
C18_DirectTriggerAccepted ==
    \A s \in Instances : \A t \in DirectReferences :
        (deployed \in Deployments /\ pc[s] # "idle" /\ event[s] = t[1]) => Extracted(s, t[2], t[3])

\* the step in which a copy or a delete of the append variant's archiver
\* fails, or the archiver of the staging variant fails
ArchiveFailure(s) ==
    /\ deployed \in PubSub
    /\ \/ pc[s] \in {"copy_blob", "delete"} /\ calls'[s] = Append(calls[s], <<pc[s], "raised">>)
       \/ pc[s] = "merge" /\ calls'[s] = calls[s] \o <<<<"merge", "ok">>, <<"archive_file", "raised">>>>
\* the rows the invocation took from its object are in the orders table
RowsKept(s, table) == \A r \in DOMAIN RowsOf(Lines(SourceObject(s))) : BagIn(r, table)
\* the step deleted nothing from the tables: the rows loaded by the append
\* variant and the rows merged by the staging variant are in the orders table
NoCompensation(s) ==
    /\ RowsKept(s, final_table')
    /\ pc[s] \in {"copy_blob", "delete"} => tables' = tables
    /\ pc[s] = "merge" => staging_table' = staging_table

\* C15: an archive failure after a successful load (and MERGE) ends
\* the invocation by raising to the host, and the rows loaded or merged stay
\* in the table.
C15_ArchiveFailureRaises ==
    [][\A s \in Instances :
          ArchiveFailure(s) => outcome'[s].result = "raised" /\ NoCompensation(s)]_vars

\* the row of the orders table for a row of the staging table has the value
\* of the staging row in each of the 23 columns
SameInEveryColumn(t, r) == \A i \in DOMAIN SchemaFields : t[SchemaFields[i]] = r[SchemaFields[i]]

\* C19: a successful MERGE leaves, for every row of the staging table, a row
\* of the orders table that equals it in all 23 columns (a matched row has its
\* 22 other columns overwritten, an unmatched one is inserted), and leaves the
\* rows of the orders table whose order_id is not in the staging table as
\* they were; it adds no other row.
C19_MergeUpserts ==
    [][\A s \in Instances :
          (deployed = "staging" /\ pc[s] = "merge" /\ Made(s, "merge", "ok")')
          => /\ \A r \in DOMAIN staging_table :
                   \E t \in DOMAIN final_table' : SameInEveryColumn(t, r)
             /\ \A t \in DOMAIN final_table :
                   (\A r \in DOMAIN staging_table : r.order_id # t.order_id)
                       => BagIn(t, final_table') /\ final_table'[t] = final_table[t]
             /\ \A t \in DOMAIN final_table' :
                   \/ BagIn(t, staging_table)
                   \/ BagIn(t, final_table)
                        /\ \A r \in DOMAIN staging_table : r.order_id # t.order_id]_vars

\* order 1 was overwritten by a later file and order 2, not in that file,
\* is as it was
C19_Witness ==
    \E s \in Instances :
        /\ deployed = "staging" /\ Made(s, "merge", "ok")
        /\ staging_table = RowsOf(<<Order("1", "a")>>)
        /\ final_table = RowsOf(<<Order("1", "a"), Order("2", "b")>>)

\* C20: after a successful load of the staging variant the staging table
\* holds exactly the rows of the object just loaded: rows of earlier loads
\* are gone.
C20_StagingHoldsTheLoadedObject ==
    \A s \in Instances :
        (deployed = "staging" /\ Made(s, "load", "ok"))
            => staging_table = RowsOf(Lines(SourceObject(s)))

\* the staging table holds the one row of the object loaded last, after an
\* earlier load of a two-row object whose rows are in the orders table
C20_Witness ==
    \E s \in Instances :
        /\ deployed = "staging" /\ Made(s, "load", "ok")
        /\ SourceObject(s) = <<InBucket, FileA>>
        /\ staging_table = RowsOf(<<Order("1", "a")>>)
        /\ BagIn(Order("2", "b"), final_table)

\* the JSON text a run publishes for line i of the source CSV
PublishedFor(i) == json_dumps_indent(ExtractFirstRow(read_csv(source_csv)[i]).val)
\* two CSV cells with the same value: the same text, or the same number
SameCell(x, y) ==
    \/ x = y
    \/ x \in NaValues /\ y \in NaValues
    \/ /\ IsIntText(x) \/ IsFloatText(x)
       /\ IsIntText(y) \/ IsFloatText(y)
       /\ FloatRepr(x) = FloatRepr(y)
SameLine(a, b) == \A j \in DOMAIN a : SameCell(a[j], b[j])
\* no DAG run is under way
BetweenRuns == ActiveRuns = {}

\* C21: as long as every DAG run succeeded and the source CSV had a row for
\* each of them, the k runs so far published k JSON objects, the i-th built
\* from the i-th line of the source CSV, and the CSV now holds the lines
\* after the k-th, in their order: each run publishes the first row and
\* rewrites the CSV to the rest, so the rows are published one per run, in
\* CSV order, each exactly once.
C21_RowsPublishedInOrder ==
    (deployed \in Workflows /\ BetweenRuns /\ succeeded = dag_runs
        /\ dag_runs <= Len(source_csv))
    => /\ Len(json_bucket) = dag_runs
       /\ \A i \in DOMAIN json_bucket : json_bucket[i].body = PublishedFor(i)
       /\ Len(csv_blob) = Len(source_csv) - dag_runs
       /\ \A i \in DOMAIN csv_blob : SameLine(csv_blob[i], source_csv[dag_runs + i])

\* line i of the source CSV is still in the CSV
StillInCsv(i) == \E m \in DOMAIN csv_blob : csv_blob[m][1] = source_csv[i][1]
\* the JSON object of line i of the source CSV is in the destination bucket
Published(i) == \E k \in DOMAIN json_bucket : json_bucket[k].body = PublishedFor(i)

\* C26: between DAG runs every line of the source CSV is either still in
\* the CSV or published: a run removes a row only if it uploads its JSON
\* object, also when the upload task fails or never runs.
C26_RowRemovedOnlyIfPublished ==
    (deployed \in Workflows /\ BetweenRuns)
        => \A i \in DOMAIN source_csv : StillInCsv(i) \/ Published(i)

\* C27: a DAG run uploads a JSON file only for a row it extracted: a run
\* whose CSV has no data rows, or could not be read, uploads nothing and
\* leaves the CSV as it is.
C27_UploadOnlyForExtractedRow ==
    [][\A r \in DagRunIds :
          /\ (dag_task[r] = "upload_json_to_gcs" /\ dag_task'[r] = "success")
                => ~df[r].none /\ df[r].rows # <<>>
          /\ (dag_task[r] = "transform_to_json" /\ dag_task'[r] # "transform_to_json"
                /\ (df[r].none \/ df[r].rows = <<>>))
                => csv_blob' = csv_blob]_vars

\* the records of a JSON document: the object itself, or the objects of an
\* array, in their order
Records(document) == IF document.jt = "array" THEN document.kids ELSE <<document>>

\* C22: the rows the storage-event function hands to the load job are the
\* records of the downloaded file, in their order: one row for a file with
\* one JSON object, k rows for a file with an array of k objects, each row a
\* record object.
C22_RowsAreTheRecords ==
    \A s \in Instances :
        (deployed = "storage_event" /\ Issued(s, "load_table_from_json")) =>
            /\ json_rows[s].jt = "array"
            /\ json_rows[s].kids = Records(json_loads(DocumentText(SourceObject(s))).val)
            /\ \A i \in DOMAIN json_rows[s].kids : json_rows[s].kids[i].jt = "object"

\* C23: of two staging invocations that run concurrently on different
\* objects, one whose object ends up archived has merged the rows of its own
\* object: an invocation whose archive_file call succeeds ran its MERGE on a
\* staging table that held the rows it loaded, not the rows of the other
\* invocation.
C23_ArchivedObjectHadItsRowsMerged ==
    [][\A s \in Instances :
          (deployed = "staging" /\ pc[s] = "merge" /\ Made(s, "archive_file", "ok")')
          => /\ Made(s, "merge", "ok")'
             /\ staging_table = RowsOf(Lines(SourceObject(s)))]_vars

\* two invocations, one delivery each: s ran its MERGE on the rows t had
\* loaded (the orders table, empty before, holds the rows of t's object, and
\* t has not merged yet), its archive_file call raised and its object is
\* where it was, not in the archive
C23_Witness ==
    \E s \in Instances, t \in Instances :
        /\ deployed = "staging" /\ s # t /\ delivered = 2
        /\ SourceObject(s) # SourceObject(t)
        /\ Made(s, "load", "ok") /\ Made(s, "merge", "ok") /\ Made(s, "archive_file", "raised")
        /\ Made(t, "load", "ok") /\ pc[t] = "merge"
        /\ final_table = Merged(EmptyBag, RowsOf(Lines(SourceObject(t))))
        /\ ~RowsKept(s, final_table)
        /\ SourceObject(s) \in objects /\ ArchiveObject(s) \notin objects

\* the rows of the canonical table that carry an order_id
RowsWithOrderId(id) == {t \in DOMAIN final_table : t[MergeKey] = id}
\* C24: in the staging variant the canonical table, empty at the start,
\* holds at most one row per order_id after any sequence of invocations,
\* also when a file carries the same order_id on more than one row.
C24_OneRowPerOrderId ==
    deployed = "staging" =>
        \A t \in DOMAIN final_table : SumOver(final_table, RowsWithOrderId(t[MergeKey])) <= 1

\* C25: in the append variant the rows of an object are appended to the
\* table at most once over any sequence of invocations for that object
\* (retries after a failed archive and duplicate deliveries included): the
\* objects hold different rows, so no row is in the table twice.
C25_ObjectAppendedAtMostOnce ==
    deployed = "append" => \A r \in DOMAIN final_table : final_table[r] <= 1

\* the run of s ended with the missing-configuration error
MissingConfiguration(s) ==
    pc[s] = "done" /\ outcome[s].exc = "ValueError" /\ outcome[s].at = "config"
\* C28: a run of the delete_dataset script that ends with the
\* missing-configuration error has made no delete_dataset call: the deletion
\* is issued only after the required configuration is validated.
C28_DeleteOnlyAfterValidation ==
    deployed \in Cleanups =>
        \A s \in Instances : MissingConfiguration(s) => ~Issued(s, "delete_dataset")

=============================================================================
